---- MODULE Spec2Model ----
(***************************************************************************)
(* A model of the epoch-transition machinery of the MLS group engine:      *)
(* commit creation (Group::commit_internal), the pending-commit slot,      *)
(* message reception (MessageProcessor::process_incoming_message,          *)
(* check_metadata, process_commit, calculate_provisional_state) and the    *)
(* relay that orders the members' commits.                                  *)
(*                                                                         *)
(* A hash, MAC or KDF output is a fixed-size digest of its encoded inputs.  *)
(* An Option<T> is a sequence: <<>> is None and <<x>> is Some(x).          *)
(***************************************************************************)
EXTENDS Integers, Sequences, FiniteSets, TLC

\* Bounds of the exploration.
MaxLog == 2

None == <<>>
Some(x) == <<x>>
IsSome(o) == o # <<>>
Unwrap(o) == o[1]

\* The parties of the scenarios: alice and bob are members from the start
\* (get_test_groups), carol holds a key package and may be added.
Parties == {"alice", "bob", "carol"}
Founders == {"alice", "bob"}
Leaves == {0, 1, 2}

MemberSender(leaf) == [kind |-> "Member", leaf |-> leaf]
NewMemberCommitSender == [kind |-> "NewMemberCommit", leaf |-> 0 - 1]

-----------------------------------------------------------------------------
(* Results.  Ok carries the event, an error carries its tag and argument.  *)

Ok(v) == [ok |-> TRUE, err |-> "", arg |-> None, val |-> v]
Err(e) == [ok |-> FALSE, err |-> e, arg |-> None, val |-> None]
ErrArg(e, a) == [ok |-> FALSE, err |-> e, arg |-> Some(a), val |-> None]

-----------------------------------------------------------------------------
(* Cryptography.  A hash, MAC or KDF output is a fixed-size digest of the   *)
(* serialized inputs: the inputs are encoded field by field (MlsEncode) and *)
(* absorbed into two running residues.  Every digest starts with a label,   *)
(* so digests of different kinds do not meet.                               *)

\* The byte strings of the scenarios, in the order that encodes them.
Atoms ==
    <<"", "alice", "bob", "carol", "mls10", "mls_other", "group", "other_group",
      "suite1", "ext0", "ext1", "aad1", "psk1", "payload",
      "Plain", "Cipher", "Welcome", "GroupInfo", "KeyPackage",
      "Application", "Proposal", "Commit", "Member", "NewMemberCommit",
      "Add", "Update", "Remove", "Psk", "ReInit", "ExternalInit",
      "GroupContextExtensions", "Custom",
      "tree_hash", "confirmed", "interim", "commit_secret", "joiner_secret",
      "epoch_secret", "confirmation_tag", "parents", "proposal_ref",
      "root_secret", "created", "zero", "alice2", "bob2", "carol2",
      "MLS 1.0 KeyPackage Reference">>

CodeOf == [s \in {Atoms[i] : i \in 1..Len(Atoms)} |->
              CHOOSE i \in 1..Len(Atoms) : Atoms[i] = s]
Code(s) == CodeOf[s]

Modulus1 == 16777213
Modulus2 == 16777199
Multiplier1 == 101
Multiplier2 == 103

Word(n) == <<n, n>>
Atom(s) == Word(Code(s))
Flag(b) == Word(IF b THEN 1 ELSE 0)

RECURSIVE Absorb(_, _)
Absorb(h, words) ==
    IF words = <<>> THEN h
    ELSE Absorb(<<(h[1] * Multiplier1 + Head(words)[1] + 1) % Modulus1,
                  (h[2] * Multiplier2 + Head(words)[2] + 1) % Modulus2>>,
                Tail(words))

\* The two residues change places at the end, so that a digest taken into
\* another digest does not enter it as a linear term: two inputs that differ
\* in two fields do not cancel.
Digest(words) ==
    LET h == Absorb(Word(Len(words)), words) IN <<h[2], h[1]>>

\* The empty hash value (the transcript hashes of a new group).
EmptyHash == Digest(<<>>)

\* An optional field: a presence byte, then the value.
Absent == Word(0)
Present(d) == Digest(<<Word(1), d>>)

EncodeLeafNode(node) ==
    Digest(<<Atom(node.id), Atom(node.cred), Atom(node.source), Word(node.gen)>>)

EncodeSender(sender) == Digest(<<Atom(sender.kind), Word(sender.leaf + 1)>>)

EncodeProposal(p) ==
    Digest(<<Atom(p.type), Word(p.leaf + 1), Atom(p.kp), Atom(p.ext), Flag(p.flag)>>)

EncodeProposalOrRef(por) ==
    IF por.is_ref THEN Digest(<<Word(2), Unwrap(por.ref)>>)
    ELSE Digest(<<Word(1), EncodeProposal(Unwrap(por.proposal))>>)

EncodeProposals(proposals) ==
    Digest([i \in 1..Len(proposals) |-> EncodeProposalOrRef(proposals[i])])

EncodeUpdatePath(path) ==
    Digest(<<EncodeLeafNode(path.leaf_node), path.root_secret, Flag(path.ct_ok)>>)

EncodeCommit(commit) ==
    Digest(<<EncodeProposals(commit.proposals),
             IF commit.path = <<>> THEN Absent
             ELSE Present(EncodeUpdatePath(Unwrap(commit.path)))>>)

\* MLSAuthenticatedContent without its confirmation tag.
EncodeContent(content) ==
    Digest(<<Atom(content.wire_format), Atom(content.group_id), Word(content.epoch),
             EncodeSender(content.sender), Atom(content.authenticated_data),
             Atom(content.content_type),
             IF content.content_type = "Commit" THEN EncodeCommit(content.content)
             ELSE IF content.content_type = "Proposal"
                 THEN EncodeProposal(content.content)
             ELSE Atom(content.content)>>)

EncodeContext(context) ==
    Digest(<<Atom(context.protocol_version), Atom(context.cipher_suite),
             Atom(context.group_id), Word(context.epoch), context.tree_hash,
             context.confirmed_transcript_hash, Atom(context.extensions)>>)

\* TreeKemPublic::tree_hash
TreeHash(tree) ==
    Digest(<<Atom("tree_hash"),
             Digest([i \in 1..Cardinality(DOMAIN tree.leaves) |->
                        IF tree.leaves[i - 1] = <<>> THEN Absent
                        ELSE Present(EncodeLeafNode(Unwrap(tree.leaves[i - 1])))]),
             IF tree.parents = <<>> THEN Absent ELSE Present(Unwrap(tree.parents))>>)

\* The public keys an update path writes on the committer's direct path.
ParentKeys(root_secret) == Digest(<<Atom("parents"), root_secret>>)

\* The path secret a committer draws for the root: fresh for the committer,
\* the epoch and the proposals it commits.
RootSecret(self_index, epoch, commit_proposals) ==
    Digest(<<Atom("root_secret"), Word(self_index), Word(epoch),
             EncodeProposals(commit_proposals)>>)

\* ProposalRef::from_content
ProposalRefOf(auth_content) ==
    Digest(<<Atom("proposal_ref"), EncodeContent(auth_content)>>)

\* ConfirmedTranscriptHash::create: interim_{n-1} || commit content without
\* the confirmation tag.
ConfirmedTranscriptHash(interim, content) ==
    Digest(<<Atom("confirmed"), interim, EncodeContent(content)>>)

\* InterimTranscriptHash::create: confirmed_n || confirmation_tag_n.
InterimTranscriptHash(confirmed, tag) ==
    Digest(<<Atom("interim"), confirmed,
             IF tag = <<>> THEN Absent ELSE Present(Unwrap(tag))>>)

\* CommitSecret::from_root_secret: zeros when the commit has no path.
CommitSecret(root_secret) ==
    IF IsSome(root_secret) THEN Digest(<<Atom("commit_secret"), Unwrap(root_secret)>>)
    ELSE Digest(<<Atom("commit_secret"), Atom("zero")>>)

\* The joiner secret and the epoch secret derived from it (spec 4.E): the
\* joiner secret binds the previous epoch's secret, the commit secret and the
\* new group context; the epoch secret adds the PSK secret.
JoinerSecret(prev_secret, commit_secret, context) ==
    Digest(<<Atom("joiner_secret"), prev_secret, commit_secret, EncodeContext(context)>>)

EpochSecret(joiner_secret, psks, context) ==
    Digest(<<Atom("epoch_secret"), joiner_secret,
             Digest([i \in 1..Len(psks) |-> Atom(psks[i])]), EncodeContext(context)>>)

\* KeySchedule::from_key_schedule
KeyScheduleFrom(key_schedule, commit_secret, context, psks) ==
    LET joiner == JoinerSecret(key_schedule.secret, commit_secret, context)
    IN [joiner_secret |-> joiner,
        key_schedule |-> [secret |-> EpochSecret(joiner, psks, context)]]

\* ConfirmationTag::create: MAC of the confirmed transcript hash under the
\* confirmation key of the new epoch.
ConfirmationTag(key_schedule, confirmed) ==
    Digest(<<Atom("confirmation_tag"), key_schedule.secret, confirmed>>)

-----------------------------------------------------------------------------
(* The ratchet tree: the leaves, and a summary of the parent nodes (the     *)
(* public keys written by the last update path, blank after a membership   *)
(* change without a path).                                                 *)

LeafNode(id, cred, source, gen) ==
    [id |-> id, cred |-> cred, source |-> source, gen |-> gen]

KeyPackageOf(party) == LeafNode(party, party, "KeyPackage", 0)

TreeOf(leaves, parents) == [leaves |-> leaves, parents |-> parents]

OccupiedLeaves(tree) == {l \in Leaves : IsSome(tree.leaves[l])}
MinOf(S) == CHOOSE x \in S : \A y \in S : x <= y
LeafOfParty(tree, party) ==
    LET at == {l \in OccupiedLeaves(tree) : Unwrap(tree.leaves[l]).id = party}
    IN IF at = {} THEN None ELSE Some(MinOf(at))

-----------------------------------------------------------------------------
(* Proposals.  Every proposal is a record of one shape; the fields a type  *)
(* does not use hold their defaults.                                        *)

Proposal(type, leaf, kp, ext, flag) ==
    [type |-> type, leaf |-> leaf, kp |-> kp, ext |-> ext, flag |-> flag]

AddProposal(party) == Proposal("Add", 0 - 1, party, "", FALSE)
RemoveProposal(to_remove) == Proposal("Remove", to_remove, "", "", FALSE)
UpdateProposal(gen) == Proposal("Update", gen, "", "", FALSE)
PskProposal(id) == Proposal("Psk", 0 - 1, "", id, FALSE)
ReInitProposal(ext) == Proposal("ReInit", 0 - 1, "", ext, FALSE)
ExternalInitProposal == Proposal("ExternalInit", 0 - 1, "", "", FALSE)
GroupContextExtensionsProposal(ext) ==
    Proposal("GroupContextExtensions", 0 - 1, "", ext, FALSE)
CustomProposal(path_required) == Proposal("Custom", 0 - 1, "", "", path_required)

ByValue(p) == [is_ref |-> FALSE, proposal |-> Some(p), ref |-> None]
ByReference(r) == [is_ref |-> TRUE, proposal |-> None, ref |-> Some(r)]

-----------------------------------------------------------------------------
(* The proposal bundle of a commit: the proposals in commit order, each    *)
(* with its proposer and, when it was sent by reference, its reference.    *)

BundleItem(p, sender, ref) == [proposal |-> p, sender |-> sender, ref |-> ref]

ByType(bundle, type) == SelectSeq(bundle, LAMBDA it : it.proposal.type = type)

\* The leaves of the Remove proposals alone.
TargetedLeavesOfRemoves(bundle) ==
    LET removes == ByType(bundle, "Remove")
    IN [i \in 1..Len(removes) |-> removes[i].proposal.leaf]

\* The leaves a bundle targets: to_remove of each Remove, then the sender
\* leaf of each Update sent by a member.
TargetedLeaves(bundle) ==
    LET removes == ByType(bundle, "Remove")
        updates == SelectSeq(ByType(bundle, "Update"),
                             LAMBDA it : it.sender.kind = "Member")
    IN [i \in 1..Len(removes) |-> removes[i].proposal.leaf]
       \o [i \in 1..Len(updates) |-> updates[i].sender.leaf]

\* try_fold(HashSet::new(), insert): the first leaf that is inserted twice.
RECURSIVE FirstRepeated(_, _, _)
FirstRepeated(leafs, i, seen) ==
    IF i > Len(leafs) THEN None
    ELSE IF leafs[i] \in seen THEN Some(leafs[i])
    ELSE FirstRepeated(leafs, i + 1, seen \cup {leafs[i]})

\* SingleProposalForLeaf::validate
SingleProposalForLeafValidate(bundle) ==
    LET dup == FirstRepeated(TargetedLeaves(bundle), 1, {})
    IN IF IsSome(dup) THEN ErrArg("MoreThanOneProposalForLeaf", Unwrap(dup))
       ELSE Ok(None)

HasType(bundle, types) == \E i \in 1..Len(bundle) : bundle[i].proposal.type \in types

\* A pass over the Remove proposals that notes their leaves and drops none.
RetainRemovesKeepingAll(bundle, leaves) ==
    [bundle |-> bundle,
     leaves |-> leaves \cup {bundle[i].proposal.leaf :
                                 i \in {j \in 1..Len(bundle) :
                                            bundle[j].proposal.type = "Remove"}}]

\* retain_by_type::<RemoveProposal>(|p| leaves.insert(p.proposal.to_remove)):
\* a Remove stays when its leaf enters the set for the first time.
RECURSIVE RetainRemoves(_, _)
RetainRemoves(bundle, leaves) ==
    IF bundle = <<>> THEN [bundle |-> <<>>, leaves |-> leaves]
    ELSE LET it == Head(bundle)
             keep == it.proposal.type # "Remove" \/ it.proposal.leaf \notin leaves
             rest == RetainRemoves(Tail(bundle),
                                   IF it.proposal.type = "Remove"
                                   THEN leaves \cup {it.proposal.leaf} ELSE leaves)
         IN [bundle |-> IF keep THEN <<it>> \o rest.bundle ELSE rest.bundle,
             leaves |-> rest.leaves]

\* retain_by_type::<UpdateProposal>: an Update of a member stays when its
\* sender's leaf enters the set for the first time; any other Update stays.
RECURSIVE RetainUpdates(_, _)
RetainUpdates(bundle, leaves) ==
    IF bundle = <<>> THEN <<>>
    ELSE LET it == Head(bundle)
             counted == it.proposal.type = "Update" /\ it.sender.kind = "Member"
             keep == ~counted \/ it.sender.leaf \notin leaves
         IN (IF keep THEN <<it>> ELSE <<>>)
            \o RetainUpdates(Tail(bundle),
                             IF counted THEN leaves \cup {it.sender.leaf} ELSE leaves)

\* SingleProposalForLeaf::filter that passes over the Update proposals
\* first, so that an Update wins over the Remove of its sender's leaf.
SingleProposalForLeafFilterUpdatesFirst(bundle) ==
    Ok(RetainRemoves(RetainUpdates(bundle, {}),
                     {bundle[i].sender.leaf :
                          i \in {j \in 1..Len(bundle) :
                                     /\ bundle[j].proposal.type = "Update"
                                     /\ bundle[j].sender.kind = "Member"}}).bundle)

\* SingleProposalForLeaf::filter with a set of leaves of its own for the
\* Update proposals.
SingleProposalForLeafFilterByType(bundle) ==
    Ok(RetainUpdates(RetainRemoves(bundle, {}).bundle, {}))

\* SingleProposalForLeaf::filter that stops after the pass over the Remove
\* proposals when that pass dropped one.
SingleProposalForLeafFilterOnePass(bundle) ==
    IF RetainRemoves(bundle, {}).bundle # bundle
    THEN Ok(RetainRemoves(bundle, {}).bundle)
    ELSE Ok(RetainUpdates(bundle, RetainRemoves(bundle, {}).leaves))

\* SingleProposalForLeaf::filter that returns the Remove and Update proposals
\* it keeps and nothing else.
SingleProposalForLeafFilterLeafOnly(bundle) ==
    Ok(RetainUpdates(
           RetainRemoves(SelectSeq(bundle, LAMBDA it : it.proposal.type \in {"Remove", "Update"}),
                         {}).bundle,
           RetainRemoves(bundle, {}).leaves))

\* SingleProposalForLeaf::filter
SingleProposalForLeafFilter(bundle) ==
    Ok(RetainUpdates(RetainRemoves(bundle, {}).bundle,
                     RetainRemoves(bundle, {}).leaves))

\* Implementations of ProposalFilter: SingleProposalForLeaf, the rule of 4.D
\* that only an external commit holds an ExternalInit, and two rules of an
\* application: no Add is committed, and a Remove is committed only along
\* with an Add.  And(a, b) combines two of them.
Rule(name) == [rule |-> name, a |-> None, b |-> None]
And(a, b) == [rule |-> "And", a |-> Some(a), b |-> Some(b)]

Rules ==
    {Rule("SingleProposalForLeaf"), Rule("ExternalInitByNewMember"),
     Rule("NoAdd"), Rule("RemoveWithAdd")}

\* validate of a rule that is not a combination.
ValidateRule(name, bundle) ==
    CASE name = "SingleProposalForLeaf" -> SingleProposalForLeafValidate(bundle)
      [] name = "ExternalInitByNewMember" ->
             IF HasType(bundle, {"ExternalInit"})
             THEN Err("ExternalInitMustBeCommittedByNewMember") ELSE Ok(None)
      [] name = "NoAdd" ->
             IF HasType(bundle, {"Add"})
             THEN Err("KeyPackageValidationError") ELSE Ok(None)
      [] name = "RemoveWithAdd" ->
             IF HasType(bundle, {"Remove"}) /\ ~HasType(bundle, {"Add"})
             THEN Err("RatchetTreeError") ELSE Ok(None)

\* filter of a rule that is not a combination: an ExternalInit cannot be
\* dropped, the Adds are dropped, the Removes without any Add are dropped.
FilterRule(name, bundle) ==
    CASE name = "SingleProposalForLeaf" -> SingleProposalForLeafFilter(bundle)
      [] name = "ExternalInitByNewMember" ->
             IF HasType(bundle, {"ExternalInit"})
             THEN Err("ExternalInitMustBeCommittedByNewMember") ELSE Ok(bundle)
      [] name = "NoAdd" ->
             Ok(SelectSeq(bundle, LAMBDA it : it.proposal.type # "Add"))
      [] name = "RemoveWithAdd" ->
             IF HasType(bundle, {"Add"}) THEN Ok(bundle)
             ELSE Ok(SelectSeq(bundle, LAMBDA it : it.proposal.type # "Remove"))

\* And::validate with the second rule consulted first.
AndValidateSecondFirst(first, second) ==
    IF ~second.ok THEN second
    ELSE IF ~first.ok THEN first
    ELSE Ok(None)

\* And::validate, from the results of its two rules: self.0.validate()?;
\* self.1.validate()?; Ok(()).
AndValidate(first, second) ==
    IF ~first.ok THEN first
    ELSE IF ~second.ok THEN second
    ELSE Ok(None)

RECURSIVE Validate(_, _)
\* ProposalFilter::validate
Validate(f, bundle) ==
    IF f.rule = "And"
    THEN AndValidate(Validate(Unwrap(f.a), bundle), Validate(Unwrap(f.b), bundle))
    ELSE ValidateRule(f.rule, bundle)

RECURSIVE Filter(_, _)
\* ProposalFilter::filter; And::filter is self.1.filter(self.0.filter(proposals)?).
Filter(f, bundle) ==
    IF f.rule = "And"
    THEN IF ~Filter(Unwrap(f.a), bundle).ok THEN Filter(Unwrap(f.a), bundle)
         ELSE Filter(Unwrap(f.b), Filter(Unwrap(f.a), bundle).val)
    ELSE FilterRule(f.rule, bundle)

-----------------------------------------------------------------------------
(* The proposal rules of the spec (4.D) and the effects of a proposal set  *)
(* on the tree: ProposalCache::prepare_commit and proposal_effects.        *)

CacheEntry(ref, p, sender) == [ref |-> ref, proposal |-> p, sender |-> sender]
CacheLookup(cache, ref) == {e \in cache : e.ref = ref}

\* The first rule of 4.D a bundle breaks, the earlier rule winning.
ValidateBundle(bundle, committer, tree) ==
    LET single == SingleProposalForLeafValidate(bundle)
        external == committer.kind = "NewMemberCommit"
    IN IF ~single.ok THEN single
       ELSE IF Len(ByType(bundle, "GroupContextExtensions")) > 1
           THEN Err("MoreThanOneGroupContextExtensionsProposal")
       ELSE IF \E i \in 1..Len(bundle) :
                   /\ bundle[i].proposal.type = "Update"
                   /\ bundle[i].sender = committer
           THEN Err("InvalidCommitSelfUpdate")
       ELSE IF \E i \in 1..Len(bundle) :
                   /\ bundle[i].proposal.type = "Remove"
                   /\ committer.kind = "Member"
                   /\ bundle[i].proposal.leaf = committer.leaf
           THEN Err("CommitterSelfRemoval")
       ELSE IF external /\ Len(ByType(bundle, "ExternalInit")) # 1
           THEN Err("ExternalCommitMustHaveExactlyOneExternalInit")
       ELSE IF external /\ Len(ByType(bundle, "Remove")) > 1
           THEN Err("ExternalCommitWithMoreThanOneRemove")
       ELSE IF external /\ HasType(bundle, {"Add", "Update", "GroupContextExtensions",
                                            "ReInit", "Custom"})
           THEN Err("InvalidProposalTypeInExternalCommit")
       ELSE IF ~external /\ HasType(bundle, {"ExternalInit"})
           THEN Err("ExternalInitMustBeCommittedByNewMember")
       ELSE IF \E i \in 1..Len(bundle) :
                   /\ bundle[i].proposal.type = "Remove"
                   /\ bundle[i].proposal.leaf \notin OccupiedLeaves(tree)
           THEN Err("RatchetTreeError")
       ELSE IF \E i \in 1..Len(bundle) :
                   /\ bundle[i].proposal.type = "Update"
                   /\ \/ bundle[i].sender.kind # "Member"
                      \/ bundle[i].sender.leaf \notin OccupiedLeaves(tree)
           THEN Err("InvalidProposalTypeForProposer")
       ELSE IF \E i \in 1..Len(bundle) :
                   /\ bundle[i].proposal.type = "Add"
                   /\ \/ IsSome(LeafOfParty(tree, bundle[i].proposal.kp))
                      \/ \E j \in 1..(i - 1) : bundle[j].proposal = bundle[i].proposal
           THEN Err("KeyPackageValidationError")
       ELSE Ok(None)

\* ProposalSetEffects::path_update_required (4.D): a path is required iff the
\* set is empty or holds an Update, Remove, GroupContextExtensions or
\* ExternalInit, or a Custom proposal that declares it.
PathUpdateRequired(bundle) ==
    \/ bundle = <<>>
    \/ HasType(bundle, {"Update", "Remove", "GroupContextExtensions", "ExternalInit"})
    \/ \E i \in 1..Len(bundle) :
           bundle[i].proposal.type = "Custom" /\ bundle[i].proposal.flag

\* The tree after the Updates, then the Removes, then the Adds of a bundle;
\* each Add takes the leftmost blank leaf.
RECURSIVE ApplyUpdates(_, _)
ApplyUpdates(leaves, updates) ==
    IF updates = <<>> THEN leaves
    ELSE LET it == Head(updates)
             old == Unwrap(leaves[it.sender.leaf])
             new == LeafNode(old.id, old.cred, "Update", it.proposal.leaf)
         IN ApplyUpdates([leaves EXCEPT ![it.sender.leaf] = Some(new)], Tail(updates))

RECURSIVE ApplyRemoves(_, _)
ApplyRemoves(leaves, removes) ==
    IF removes = <<>> THEN leaves
    ELSE ApplyRemoves([leaves EXCEPT ![Head(removes).proposal.leaf] = None],
                      Tail(removes))

LeftmostBlank(leaves) == MinOf({l \in Leaves : leaves[l] = None})

RECURSIVE ApplyAdds(_, _)
ApplyAdds(leaves, adds) ==
    IF adds = <<>> THEN [leaves |-> leaves, indexes |-> <<>>]
    ELSE LET at == LeftmostBlank(leaves)
             rest == ApplyAdds([leaves EXCEPT ![at] = Some(KeyPackageOf(Head(adds).proposal.kp))],
                               Tail(adds))
         IN [leaves |-> rest.leaves, indexes |-> <<at>> \o rest.indexes]

\* ProposalSetEffects of a valid bundle.
EffectsOf(bundle, rejected, tree) ==
    LET updates == ByType(bundle, "Update")
        removes == ByType(bundle, "Remove")
        adds == ByType(bundle, "Add")
        gce == ByType(bundle, "GroupContextExtensions")
        reinit == ByType(bundle, "ReInit")
        ext_init == ByType(bundle, "ExternalInit")
        updated == ApplyUpdates(tree.leaves, updates)
        removed == ApplyRemoves(updated, removes)
        added == ApplyAdds(removed, adds)
        changed == updates # <<>> \/ removes # <<>> \/ adds # <<>>
    IN [tree |-> TreeOf(added.leaves, IF changed THEN None ELSE tree.parents),
        adds |-> [i \in 1..Len(adds) |-> KeyPackageOf(adds[i].proposal.kp)],
        added_leaf_indexes |-> added.indexes,
        removed_leaves |-> [i \in 1..Len(removes) |->
                               <<removes[i].proposal.leaf,
                                 Unwrap(tree.leaves[removes[i].proposal.leaf])>>],
        updates |-> [i \in 1..Len(updates) |->
                        <<updates[i].sender.leaf,
                          Unwrap(updated[updates[i].sender.leaf])>>],
        psks |-> [i \in 1..Len(ByType(bundle, "Psk")) |->
                     ByType(bundle, "Psk")[i].proposal.ext],
        reinit |-> IF reinit = <<>> THEN None ELSE Some(reinit[1].proposal),
        external_init |-> IF ext_init = <<>> THEN None
                          ELSE Some(<<LeftmostBlank(removed), ext_init[1].proposal>>),
        group_context_ext |-> IF gce = <<>> THEN None ELSE Some(gce[1].proposal.ext),
        custom_proposals |-> [i \in 1..Len(ByType(bundle, "Custom")) |->
                                 ByType(bundle, "Custom")[i].proposal],
        rejected_proposals |-> rejected,
        path_update_required |-> PathUpdateRequired(bundle)]

\* The commit's ProposalOrRef list resolved against the proposal cache: a
\* proposal by value is the committer's, a reference must be cached.
RECURSIVE ResolveProposals(_, _, _)
ResolveProposals(props, cache, committer) ==
    IF props = <<>> THEN Ok(<<>>)
    ELSE LET h == Head(props)
             rest == ResolveProposals(Tail(props), cache, committer)
         IN IF h.is_ref /\ CacheLookup(cache, Unwrap(h.ref)) = {}
                THEN ErrArg("ProposalCacheMiss", Unwrap(h.ref))
            ELSE IF ~rest.ok THEN rest
            ELSE IF h.is_ref
                THEN LET e == CHOOSE e \in CacheLookup(cache, Unwrap(h.ref)) : TRUE
                     IN Ok(<<BundleItem(e.proposal, e.sender, h.ref)>> \o rest.val)
            ELSE Ok(<<BundleItem(Unwrap(h.proposal), committer, None)>> \o rest.val)

\* proposal_effects: the effects of a received commit, or the first rule
\* its proposals break (validate mode).
ProposalEffects(cache, commit, sender, tree) ==
    LET resolved == ResolveProposals(commit.proposals, cache, sender)
    IN IF ~resolved.ok THEN resolved
       ELSE LET valid == ValidateBundle(resolved.val, sender, tree)
            IN IF ~valid.ok THEN valid
               ELSE Ok(EffectsOf(resolved.val, <<>>, tree))

RECURSIVE SetToSeq(_)
SetToSeq(S) ==
    IF S = {} THEN <<>>
    ELSE LET x == CHOOSE x \in S : TRUE IN <<x>> \o SetToSeq(S \ {x})

\* Filter-out mode on the cached proposals: a cached proposal is kept when
\* the bundle stays valid with it, and is rejected otherwise.
RECURSIVE FilterCached(_, _, _, _)
FilterCached(entries, kept, committer, tree) ==
    IF entries = <<>> THEN [kept |-> kept, rejected |-> <<>>]
    ELSE LET e == Head(entries)
             item == BundleItem(e.proposal, e.sender, Some(e.ref))
         IN IF ValidateBundle(Append(kept, item), committer, tree).ok
                THEN FilterCached(Tail(entries), Append(kept, item), committer, tree)
            ELSE LET rest == FilterCached(Tail(entries), kept, committer, tree)
                 IN [kept |-> rest.kept,
                     rejected |-> <<<<e.ref, e.proposal>>>> \o rest.rejected]

\* ProposalCache::prepare_commit: the cached proposals by reference (filtered),
\* then the caller's proposals by value (validated); an external committer
\* holds no cache.
PrepareCommit(cache, sender, proposals, tree) ==
    LET cached == IF sender.kind = "Member"
                  THEN FilterCached(SetToSeq(cache), <<>>, sender, tree)
                  ELSE [kept |-> <<>>, rejected |-> <<>>]
        by_value == [i \in 1..Len(proposals) |-> BundleItem(proposals[i], sender, None)]
        bundle == cached.kept \o by_value
        valid == ValidateBundle(bundle, sender, tree)
    IN IF ~valid.ok THEN valid
       ELSE Ok([commit_proposals |->
                    [i \in 1..Len(cached.kept) |-> ByReference(Unwrap(cached.kept[i].ref))]
                    \o [i \in 1..Len(proposals) |-> ByValue(proposals[i])],
                effects |-> EffectsOf(bundle, cached.rejected, tree)])

-----------------------------------------------------------------------------
(* Framing.  An MLSMessage is a record of one shape; for the payloads that *)
(* are not framed content (Welcome, GroupInfo, KeyPackage) only version    *)
(* and wire_format are meaningful.  signed_by is the signing identity whose *)
(* key made the signature; auth_ok says whether the message arrives as it  *)
(* was signed and tagged (Plain) or as it was sealed (Cipher).             *)

MLSMessage(version, wire_format, group_id, epoch, content_type, sender, aad, content, tag, signed_by, auth_ok) ==
    [version |-> version, wire_format |-> wire_format, group_id |-> group_id,
     epoch |-> epoch, content_type |-> content_type, sender |-> sender,
     authenticated_data |-> aad, content |-> content, confirmation_tag |-> tag,
     signed_by |-> signed_by, auth_ok |-> auth_ok]

\* MLSAuthenticatedContent: what a verified or decrypted message yields.
AuthContentOf(message) ==
    [wire_format |-> message.wire_format, group_id |-> message.group_id,
     epoch |-> message.epoch, sender |-> message.sender,
     authenticated_data |-> message.authenticated_data,
     content_type |-> message.content_type, content |-> message.content,
     confirmation_tag |-> message.confirmation_tag,
     signed_by |-> message.signed_by]

\* format_for_wire: the message that carries an authenticated content.
FormatForWire(version, auth_content) ==
    MLSMessage(version, auth_content.wire_format, auth_content.group_id,
               auth_content.epoch, auth_content.content_type, auth_content.sender,
               auth_content.authenticated_data, auth_content.content,
               auth_content.confirmation_tag, auth_content.signed_by, TRUE)

Commit(proposals, path) == [proposals |-> proposals, path |-> path]

UpdatePath(leaf_node, root_secret, ct_ok) ==
    [leaf_node |-> leaf_node, root_secret |-> root_secret, ct_ok |-> ct_ok]

GroupContext(version, cipher_suite, group_id, epoch, tree_hash, confirmed, extensions) ==
    [protocol_version |-> version, cipher_suite |-> cipher_suite,
     group_id |-> group_id, epoch |-> epoch,
     tree_hash |-> tree_hash, confirmed_transcript_hash |-> confirmed,
     extensions |-> extensions]

\* check_metadata that refuses a proposal or commit only when its epoch is
\* ahead of the group's.
CheckMetadataNewerOnly(context, min_epoch_available, message) ==
    IF message.version # context.protocol_version
        THEN ErrArg("InvalidProtocolVersion",
                    <<context.protocol_version, message.version>>)
    ELSE IF message.wire_format \in {"Plain", "Cipher"}
        THEN IF message.group_id # context.group_id
                 THEN ErrArg("InvalidGroupId", message.group_id)
             ELSE IF /\ message.content_type \in {"Proposal", "Commit"}
                     /\ context.epoch < message.epoch
                 THEN ErrArg("InvalidEpoch", message.epoch)
             ELSE IF /\ message.content_type = "Application"
                     /\ IsSome(min_epoch_available)
                     /\ message.epoch < Unwrap(min_epoch_available)
                 THEN ErrArg("InvalidEpoch", message.epoch)
             ELSE IF /\ message.wire_format = "Plain"
                     /\ message.content_type = "Application"
                 THEN Err("UnencryptedApplicationMessage")
             ELSE Ok(None)
    ELSE Ok(None)

\* check_metadata that reports the group's epoch, not the message's, in
\* InvalidEpoch.
CheckMetadataReportingOwnEpoch(context, min_epoch_available, message) ==
    IF message.version # context.protocol_version
        THEN ErrArg("InvalidProtocolVersion",
                    <<context.protocol_version, message.version>>)
    ELSE IF message.wire_format \in {"Plain", "Cipher"}
        THEN IF message.group_id # context.group_id
                 THEN ErrArg("InvalidGroupId", message.group_id)
             ELSE IF /\ message.content_type \in {"Proposal", "Commit"}
                     /\ context.epoch # message.epoch
                 THEN ErrArg("InvalidEpoch", context.epoch)
             ELSE IF /\ message.content_type = "Application"
                     /\ IsSome(min_epoch_available)
                     /\ message.epoch < Unwrap(min_epoch_available)
                 THEN ErrArg("InvalidEpoch", message.epoch)
             ELSE IF /\ message.wire_format = "Plain"
                     /\ message.content_type = "Application"
                 THEN Err("UnencryptedApplicationMessage")
             ELSE Ok(None)
    ELSE Ok(None)

\* check_metadata that lets application content through in any wire format.
CheckMetadataAllowingPlaintext(context, min_epoch_available, message) ==
    IF message.version # context.protocol_version
        THEN ErrArg("InvalidProtocolVersion",
                    <<context.protocol_version, message.version>>)
    ELSE IF message.wire_format \in {"Plain", "Cipher"}
        THEN IF message.group_id # context.group_id
                 THEN ErrArg("InvalidGroupId", message.group_id)
             ELSE IF /\ message.content_type \in {"Proposal", "Commit"}
                     /\ context.epoch # message.epoch
                 THEN ErrArg("InvalidEpoch", message.epoch)
             ELSE IF /\ message.content_type = "Application"
                     /\ IsSome(min_epoch_available)
                     /\ message.epoch < Unwrap(min_epoch_available)
                 THEN ErrArg("InvalidEpoch", message.epoch)
             ELSE Ok(None)
    ELSE Ok(None)

\* check_metadata that refuses unencrypted application data before it looks
\* at the epoch.
CheckMetadataPlaintextFirst(context, min_epoch_available, message) ==
    IF message.version # context.protocol_version
        THEN ErrArg("InvalidProtocolVersion",
                    <<context.protocol_version, message.version>>)
    ELSE IF message.wire_format \in {"Plain", "Cipher"}
        THEN IF message.group_id # context.group_id
                 THEN ErrArg("InvalidGroupId", message.group_id)
             ELSE IF /\ message.wire_format = "Plain"
                     /\ message.content_type = "Application"
                 THEN Err("UnencryptedApplicationMessage")
             ELSE IF /\ message.content_type \in {"Proposal", "Commit"}
                     /\ context.epoch # message.epoch
                 THEN ErrArg("InvalidEpoch", message.epoch)
             ELSE IF /\ message.content_type = "Application"
                     /\ IsSome(min_epoch_available)
                     /\ message.epoch < Unwrap(min_epoch_available)
                 THEN ErrArg("InvalidEpoch", message.epoch)
             ELSE Ok(None)
    ELSE Ok(None)

\* check_metadata that holds application data to the current epoch, like
\* proposals and commits.
CheckMetadataCurrentEpochOnly(context, min_epoch_available, message) ==
    IF message.version # context.protocol_version
        THEN ErrArg("InvalidProtocolVersion",
                    <<context.protocol_version, message.version>>)
    ELSE IF message.wire_format \in {"Plain", "Cipher"}
        THEN IF message.group_id # context.group_id
                 THEN ErrArg("InvalidGroupId", message.group_id)
             ELSE IF context.epoch # message.epoch
                 THEN ErrArg("InvalidEpoch", message.epoch)
             ELSE IF /\ message.wire_format = "Plain"
                     /\ message.content_type = "Application"
                 THEN Err("UnencryptedApplicationMessage")
             ELSE Ok(None)
    ELSE Ok(None)

\* MessageProcessor::check_metadata
CheckMetadata(context, min_epoch_available, message) ==
    IF message.version # context.protocol_version
        THEN ErrArg("InvalidProtocolVersion",
                    <<context.protocol_version, message.version>>)
    ELSE IF message.wire_format \in {"Plain", "Cipher"}
        THEN IF message.group_id # context.group_id
                 THEN ErrArg("InvalidGroupId", message.group_id)
             ELSE IF /\ message.content_type \in {"Proposal", "Commit"}
                     /\ context.epoch # message.epoch
                 THEN ErrArg("InvalidEpoch", message.epoch)
             ELSE IF /\ message.content_type = "Application"
                     /\ IsSome(min_epoch_available)
                     /\ message.epoch < Unwrap(min_epoch_available)
                 THEN ErrArg("InvalidEpoch", message.epoch)
             ELSE IF /\ message.content_type \in {"Proposal", "Commit"}
                     /\ message.epoch # context.epoch
                 THEN ErrArg("InvalidEpoch", message.epoch)
             ELSE IF /\ message.wire_format = "Plain"
                     /\ message.content_type = "Application"
                 THEN Err("UnencryptedApplicationMessage")
             ELSE Ok(None)
    ELSE Ok(None)

-----------------------------------------------------------------------------
(* The group state of one member (GroupState plus the Group fields the     *)
(* commit pipeline uses) and the reception pipeline.  Every operation is a *)
(* function from the state before to the result and the state after.       *)

GroupState(context, tree, proposals, interim, pending_reinit, pending_commit, key_schedule, self_index) ==
    [context |-> context, public_tree |-> tree, proposals |-> proposals,
     interim_transcript_hash |-> interim, pending_reinit |-> pending_reinit,
     pending_commit |-> pending_commit, key_schedule |-> key_schedule,
     self_index |-> self_index]

Outcome(res, g) == [res |-> res, g |-> g]

\* CommitGeneration
CommitGeneration(content, pending_secrets) ==
    [content |-> content, pending_secrets |-> pending_secrets]

\* calculate_provisional_state that does not look at pending_reinit.
CalculateProvisionalStateAfterReInit(g, proposals) ==
    LET provisional_group_context ==
            IF IsSome(proposals.group_context_ext)
            THEN [g.context EXCEPT !.extensions = Unwrap(proposals.group_context_ext)]
            ELSE g.context
    IN Ok([public_tree |-> proposals.tree,
           added_leaves |-> [i \in 1..Len(proposals.adds) |->
                                <<proposals.adds[i], proposals.added_leaf_indexes[i]>>],
           removed_leaves |-> proposals.removed_leaves,
           updated_leaves |-> proposals.updates,
           epoch |-> provisional_group_context.epoch + 1,
           path_update_required |-> proposals.path_update_required,
           group_context |-> provisional_group_context,
           psks |-> proposals.psks,
           reinit |-> proposals.reinit,
           external_init |-> proposals.external_init,
           custom_proposals |-> proposals.custom_proposals,
           rejected_proposals |-> proposals.rejected_proposals])

\* calculate_provisional_state that keeps the extensions of the group
\* whatever the commit proposes.
CalculateProvisionalStateKeepingExtensions(g, proposals) ==
    IF IsSome(g.pending_reinit) THEN Err("GroupUsedAfterReInit")
    ELSE Ok([public_tree |-> proposals.tree,
             added_leaves |-> [i \in 1..Len(proposals.adds) |->
                                  <<proposals.adds[i], proposals.added_leaf_indexes[i]>>],
             removed_leaves |-> proposals.removed_leaves,
             updated_leaves |-> proposals.updates,
             epoch |-> g.context.epoch + 1,
             path_update_required |-> proposals.path_update_required,
             group_context |-> g.context,
             psks |-> proposals.psks,
             reinit |-> proposals.reinit,
             external_init |-> proposals.external_init,
             custom_proposals |-> proposals.custom_proposals,
             rejected_proposals |-> proposals.rejected_proposals])

\* MessageProcessor::calculate_provisional_state
CalculateProvisionalState(g, proposals) ==
    IF IsSome(g.pending_reinit) THEN Err("GroupUsedAfterReInit")
    ELSE LET provisional_group_context ==
                 IF IsSome(proposals.group_context_ext)
                 THEN [g.context EXCEPT !.extensions = Unwrap(proposals.group_context_ext)]
                 ELSE g.context
         IN Ok([public_tree |-> proposals.tree,
                added_leaves |-> [i \in 1..Len(proposals.adds) |->
                                     <<proposals.adds[i], proposals.added_leaf_indexes[i]>>],
                removed_leaves |-> proposals.removed_leaves,
                updated_leaves |-> proposals.updates,
                epoch |-> provisional_group_context.epoch + 1,
                path_update_required |-> proposals.path_update_required,
                group_context |-> provisional_group_context,
                psks |-> proposals.psks,
                reinit |-> proposals.reinit,
                external_init |-> proposals.external_init,
                custom_proposals |-> proposals.custom_proposals,
                rejected_proposals |-> proposals.rejected_proposals])

\* member_from_key_package / member_from_leaf_node
MemberFromLeafNode(node, index) == [index |-> index, id |-> node.id, cred |-> node.cred]

\* commit_sender: the committer's leaf, which for an external commit is the
\* leaf the ExternalInit adds.
CommitSender(sender, provisional) ==
    IF sender.kind = "Member" THEN Ok(sender.leaf)
    ELSE IF sender.kind = "NewMemberCommit" /\ IsSome(provisional.external_init)
        THEN Ok(Unwrap(provisional.external_init)[1])
    ELSE Err("ExternalCommitMissingExternalInit")

\* make_state_update that reports the leaf of every path as updated.
MakeStateUpdatePathAsUpdate(provisional, path, sender) ==
    LET added == [i \in 1..Len(provisional.added_leaves) |->
                     MemberFromLeafNode(provisional.added_leaves[i][1],
                                        provisional.added_leaves[i][2])]
        removed == [i \in 1..Len(provisional.removed_leaves) |->
                       MemberFromLeafNode(provisional.removed_leaves[i][2],
                                          provisional.removed_leaves[i][1])]
        updated == [i \in 1..Len(provisional.updated_leaves) |->
                       MemberFromLeafNode(provisional.updated_leaves[i][2],
                                          provisional.updated_leaves[i][1])]
        from_path == IF IsSome(path)
                     THEN <<MemberFromLeafNode(Unwrap(path).leaf_node, sender)>>
                     ELSE <<>>
    IN [roster_update |->
            [added |-> added,
             removed |-> removed,
             updated |-> updated \o from_path],
        added_psks |-> provisional.psks,
        pending_reinit |-> IsSome(provisional.reinit),
        active |-> TRUE,
        epoch |-> provisional.epoch,
        custom_proposals |-> provisional.custom_proposals,
        rejected_proposals |-> provisional.rejected_proposals]

\* MessageProcessor::make_state_update
MakeStateUpdate(provisional, path, sender) ==
    LET added == [i \in 1..Len(provisional.added_leaves) |->
                     MemberFromLeafNode(provisional.added_leaves[i][1],
                                        provisional.added_leaves[i][2])]
        removed == [i \in 1..Len(provisional.removed_leaves) |->
                       MemberFromLeafNode(provisional.removed_leaves[i][2],
                                          provisional.removed_leaves[i][1])]
        updated == [i \in 1..Len(provisional.updated_leaves) |->
                       MemberFromLeafNode(provisional.updated_leaves[i][2],
                                          provisional.updated_leaves[i][1])]
        from_path == IF IsSome(path)
                     THEN <<MemberFromLeafNode(Unwrap(path).leaf_node, sender)>>
                     ELSE <<>>
        external == IsSome(provisional.external_init)
    IN [roster_update |->
            [added |-> IF external THEN added \o from_path ELSE added \o <<>>,
             removed |-> removed,
             updated |-> IF external THEN updated \o <<>> ELSE updated \o from_path],
        added_psks |-> provisional.psks,
        pending_reinit |-> IsSome(provisional.reinit),
        active |-> TRUE,
        epoch |-> provisional.epoch,
        custom_proposals |-> provisional.custom_proposals,
        rejected_proposals |-> provisional.rejected_proposals]

\* Group::can_continue_processing: a member that the commit removes cannot
\* follow the group into the new epoch.
CanContinueProcessing(g, provisional) ==
    ~\E i \in 1..Len(provisional.removed_leaves) :
        provisional.removed_leaves[i][1] = g.self_index

\* validate_update_path: the path's leaf must be a Commit-source leaf of the
\* member that holds the sender's leaf (a new member for an external commit).
ValidateUpdatePath(update_path, provisional, sender) ==
    LET old == provisional.public_tree.leaves[sender]
    IN IF update_path.leaf_node.source # "Commit"
           THEN Err("LeafNodeValidationError")
       ELSE IF IsSome(old) /\ Unwrap(old).id # update_path.leaf_node.id
           THEN Err("LeafNodeValidationError")
       ELSE Ok(update_path)

\* Group::apply_update_path: the path's leaf and parent keys enter the
\* provisional tree; the root secret comes from the member's own pending
\* commit, or is decapsulated from the path.
ApplyUpdatePath(g, sender, update_path, provisional, auth_content) ==
    LET tree == TreeOf([provisional.public_tree.leaves EXCEPT
                            ![sender] = Some(update_path.leaf_node)],
                       Some(ParentKeys(update_path.root_secret)))
        own == /\ IsSome(g.pending_commit)
               /\ Unwrap(g.pending_commit).content = auth_content
    IN IF own THEN Ok([tree |-> tree,
                       secrets |-> Unwrap(g.pending_commit).pending_secrets])
       ELSE IF ~update_path.ct_ok THEN Err("HpkeOpenFailed")
       ELSE Ok([tree |-> tree, secrets |-> Some(update_path.root_secret)])

\* transcript_hashes: the confirmed hash of the commit and the interim hash
\* that follows it.
TranscriptHashes(interim, auth_content) ==
    LET confirmed == ConfirmedTranscriptHash(interim, auth_content)
    IN [confirmed |-> confirmed,
        interim |-> InterimTranscriptHash(confirmed, auth_content.confirmation_tag)]

\* update_key_schedule, once the new epoch's key schedule is derived: the
\* received confirmation tag is checked against it and, when they agree, the
\* provisional state is installed.
InstallProvisionalState(g, interim, confirmation_tag, provisional, key_schedule) ==
    IF ConfirmationTag(key_schedule,
                       provisional.group_context.confirmed_transcript_hash)
           # confirmation_tag
        THEN Outcome(Err("InvalidConfirmationTag"), g)
    ELSE Outcome(Ok(None),
                 [g EXCEPT !.context = provisional.group_context,
                           !.public_tree = provisional.public_tree,
                           !.interim_transcript_hash = interim,
                           !.key_schedule = key_schedule,
                           !.proposals = {},
                           !.pending_commit = None])

\* Group::update_key_schedule: derive the new epoch's key schedule, check the
\* received confirmation tag against it and, when they agree, install the
\* provisional state: the new context, tree, interim hash and key schedule,
\* an empty proposal cache and an empty pending-commit slot.
UpdateKeySchedule(g, secrets, interim, confirmation_tag, provisional) ==
    InstallProvisionalState(g, interim, confirmation_tag, provisional,
                            KeyScheduleFrom(g.key_schedule, CommitSecret(secrets),
                                            provisional.group_context,
                                            provisional.psks).key_schedule)

\* The result of a step that reports `val` when it succeeds.
Reporting(out, val) == Outcome(IF out.res.ok THEN Ok(val) ELSE out.res, out.g)

\* The provisional state with the commit's confirmed transcript hash and the
\* hash of its tree in the context.
WithHashes(provisional_state, confirmed) ==
    [provisional_state EXCEPT
         !.group_context.confirmed_transcript_hash = confirmed,
         !.group_context.tree_hash = TreeHash(provisional_state.public_tree)]

\* process_commit, first part: the effects of the commit's proposals and the
\* provisional state they lead to.
CommitProvisionalState(g, auth_content) ==
    LET effects == ProposalEffects(g.proposals, auth_content.content,
                                   auth_content.sender, g.public_tree)
    IN IF ~effects.ok THEN effects
       ELSE CalculateProvisionalState(g, effects.val)

\* process_commit that stores the provisional context in the group before it
\* looks for the confirmation tag.
FinishCommitStoringFirst(g, auth_content, provisional_state, new_secrets, state_update) ==
    IF auth_content.confirmation_tag = None
        THEN Outcome(Err("InvalidConfirmationTag"),
                     [g EXCEPT !.context =
                          WithHashes(provisional_state,
                                     ConfirmedTranscriptHash(g.interim_transcript_hash,
                                                             auth_content)).group_context])
    ELSE Reporting(UpdateKeySchedule(
                       g, new_secrets,
                       TranscriptHashes(g.interim_transcript_hash, auth_content).interim,
                       Unwrap(auth_content.confirmation_tag),
                       WithHashes(provisional_state,
                                  ConfirmedTranscriptHash(g.interim_transcript_hash,
                                                          auth_content))),
                   state_update)

\* process_commit that installs the provisional state under the tag it
\* derives itself, whatever tag the commit carries.
FinishCommitTrustingTag(g, auth_content, provisional_state, new_secrets, state_update) ==
    Reporting(InstallProvisionalState(
                  g, TranscriptHashes(g.interim_transcript_hash, auth_content).interim,
                  ConfirmationTag(
                      KeyScheduleFrom(g.key_schedule, CommitSecret(new_secrets),
                                      WithHashes(provisional_state,
                                                 ConfirmedTranscriptHash(
                                                     g.interim_transcript_hash,
                                                     auth_content)).group_context,
                                      provisional_state.psks).key_schedule,
                      ConfirmedTranscriptHash(g.interim_transcript_hash, auth_content)),
                  WithHashes(provisional_state,
                             ConfirmedTranscriptHash(g.interim_transcript_hash,
                                                     auth_content)),
                  KeyScheduleFrom(g.key_schedule, CommitSecret(new_secrets),
                                  WithHashes(provisional_state,
                                             ConfirmedTranscriptHash(
                                                 g.interim_transcript_hash,
                                                 auth_content)).group_context,
                                  provisional_state.psks).key_schedule),
              state_update)

\* process_commit, last part: the transcript hashes and the tree hash enter
\* the provisional context, and the key schedule is updated when the commit
\* carries a confirmation tag.
FinishCommit(g, auth_content, provisional_state, new_secrets, state_update) ==
    IF auth_content.confirmation_tag = None
        THEN Outcome(Err("InvalidConfirmationTag"), g)
    ELSE Reporting(UpdateKeySchedule(
                       g, new_secrets,
                       TranscriptHashes(g.interim_transcript_hash, auth_content).interim,
                       Unwrap(auth_content.confirmation_tag),
                       WithHashes(provisional_state,
                                  ConfirmedTranscriptHash(g.interim_transcript_hash,
                                                          auth_content))),
                   state_update)

\* process_commit that enters the provisional epoch in the group's context
\* when the commit carries a ReInit.
ProcessProvisionalStateReInitEpoch(g, auth_content, calculated) ==
    LET commit == auth_content.content
        provisional_state == calculated.val
        sender == CommitSender(auth_content.sender, provisional_state)
        state_update == MakeStateUpdate(provisional_state, commit.path, sender.val)
        update_path == ValidateUpdatePath(Unwrap(commit.path), provisional_state,
                                          sender.val)
        with_epoch == [provisional_state EXCEPT
                           !.group_context.epoch = provisional_state.epoch]
        applied == ApplyUpdatePath(g, sender.val, update_path.val, with_epoch,
                                   auth_content)
    IN IF ~calculated.ok THEN Outcome(calculated, g)
       ELSE IF ~sender.ok THEN Outcome(sender, g)
       ELSE IF provisional_state.path_update_required /\ commit.path = None
           THEN Outcome(Err("CommitMissingPath"), g)
       ELSE IF ~CanContinueProcessing(g, provisional_state)
           THEN Outcome(Ok([state_update EXCEPT !.active = FALSE]), g)
       ELSE IF IsSome(provisional_state.reinit)
           THEN Outcome(Ok([state_update EXCEPT !.active = FALSE]),
                        [g EXCEPT !.pending_reinit = provisional_state.reinit,
                                  !.context.epoch = provisional_state.epoch])
       ELSE IF commit.path = None
           THEN FinishCommit(g, auth_content, with_epoch, None, state_update)
       ELSE IF ~update_path.ok THEN Outcome(update_path, g)
       ELSE IF ~applied.ok THEN Outcome(applied, g)
       ELSE FinishCommit(g, auth_content,
                         [with_epoch EXCEPT !.public_tree = applied.val.tree],
                         applied.val.secrets, state_update)

\* process_commit that reports the group active to a member that the commit
\* removes.
ProcessProvisionalStateReportingActive(g, auth_content, calculated) ==
    LET commit == auth_content.content
        provisional_state == calculated.val
        sender == CommitSender(auth_content.sender, provisional_state)
        state_update == MakeStateUpdate(provisional_state, commit.path, sender.val)
        update_path == ValidateUpdatePath(Unwrap(commit.path), provisional_state,
                                          sender.val)
        with_epoch == [provisional_state EXCEPT
                           !.group_context.epoch = provisional_state.epoch]
        applied == ApplyUpdatePath(g, sender.val, update_path.val, with_epoch,
                                   auth_content)
    IN IF ~calculated.ok THEN Outcome(calculated, g)
       ELSE IF ~sender.ok THEN Outcome(sender, g)
       ELSE IF provisional_state.path_update_required /\ commit.path = None
           THEN Outcome(Err("CommitMissingPath"), g)
       ELSE IF ~CanContinueProcessing(g, provisional_state)
           THEN Outcome(Ok(state_update), g)
       ELSE IF IsSome(provisional_state.reinit)
           THEN Outcome(Ok([state_update EXCEPT !.active = FALSE]),
                        [g EXCEPT !.pending_reinit = provisional_state.reinit])
       ELSE IF commit.path = None
           THEN FinishCommit(g, auth_content, with_epoch, None, state_update)
       ELSE IF ~update_path.ok THEN Outcome(update_path, g)
       ELSE IF ~applied.ok THEN Outcome(applied, g)
       ELSE FinishCommit(g, auth_content,
                         [with_epoch EXCEPT !.public_tree = applied.val.tree],
                         applied.val.secrets, state_update)

\* process_commit that validates the update path of every commit, before it
\* looks at a ReInit.
ProcessProvisionalStateValidatingFirst(g, auth_content, calculated) ==
    LET commit == auth_content.content
        provisional_state == calculated.val
        sender == CommitSender(auth_content.sender, provisional_state)
        state_update == MakeStateUpdate(provisional_state, commit.path, sender.val)
        update_path == ValidateUpdatePath(Unwrap(commit.path), provisional_state,
                                          sender.val)
        with_epoch == [provisional_state EXCEPT
                           !.group_context.epoch = provisional_state.epoch]
        applied == ApplyUpdatePath(g, sender.val, update_path.val, with_epoch,
                                   auth_content)
    IN IF ~calculated.ok THEN Outcome(calculated, g)
       ELSE IF ~sender.ok THEN Outcome(sender, g)
       ELSE IF provisional_state.path_update_required /\ commit.path = None
           THEN Outcome(Err("CommitMissingPath"), g)
       ELSE IF ~CanContinueProcessing(g, provisional_state)
           THEN Outcome(Ok([state_update EXCEPT !.active = FALSE]), g)
       ELSE IF commit.path # None /\ ~update_path.ok THEN Outcome(update_path, g)
       ELSE IF IsSome(provisional_state.reinit)
           THEN Outcome(Ok([state_update EXCEPT !.active = FALSE]),
                        [g EXCEPT !.pending_reinit = provisional_state.reinit])
       ELSE IF commit.path = None
           THEN FinishCommit(g, auth_content, with_epoch, None, state_update)
       ELSE IF ~applied.ok THEN Outcome(applied, g)
       ELSE FinishCommit(g, auth_content,
                         [with_epoch EXCEPT !.public_tree = applied.val.tree],
                         applied.val.secrets, state_update)

\* process_commit that does not ask for the update path a proposal set
\* requires.
ProcessProvisionalStateAnyPath(g, auth_content, calculated) ==
    LET commit == auth_content.content
        provisional_state == calculated.val
        sender == CommitSender(auth_content.sender, provisional_state)
        state_update == MakeStateUpdate(provisional_state, commit.path, sender.val)
        update_path == ValidateUpdatePath(Unwrap(commit.path), provisional_state,
                                          sender.val)
        with_epoch == [provisional_state EXCEPT
                           !.group_context.epoch = provisional_state.epoch]
        applied == ApplyUpdatePath(g, sender.val, update_path.val, with_epoch,
                                   auth_content)
    IN IF ~calculated.ok THEN Outcome(calculated, g)
       ELSE IF ~sender.ok THEN Outcome(sender, g)
       ELSE IF ~CanContinueProcessing(g, provisional_state)
           THEN Outcome(Ok([state_update EXCEPT !.active = FALSE]), g)
       ELSE IF IsSome(provisional_state.reinit)
           THEN Outcome(Ok([state_update EXCEPT !.active = FALSE]),
                        [g EXCEPT !.pending_reinit = provisional_state.reinit])
       ELSE IF commit.path = None
           THEN FinishCommit(g, auth_content, with_epoch, None, state_update)
       ELSE IF ~update_path.ok THEN Outcome(update_path, g)
       ELSE IF ~applied.ok THEN Outcome(applied, g)
       ELSE FinishCommit(g, auth_content,
                         [with_epoch EXCEPT !.public_tree = applied.val.tree],
                         applied.val.secrets, state_update)

\* process_commit that looks for the confirmation tag before it asks whether
\* the member can continue.
ProcessProvisionalStateTagFirst(g, auth_content, calculated) ==
    LET commit == auth_content.content
        provisional_state == calculated.val
        sender == CommitSender(auth_content.sender, provisional_state)
        state_update == MakeStateUpdate(provisional_state, commit.path, sender.val)
        update_path == ValidateUpdatePath(Unwrap(commit.path), provisional_state,
                                          sender.val)
        with_epoch == [provisional_state EXCEPT
                           !.group_context.epoch = provisional_state.epoch]
        applied == ApplyUpdatePath(g, sender.val, update_path.val, with_epoch,
                                   auth_content)
    IN IF ~calculated.ok THEN Outcome(calculated, g)
       ELSE IF ~sender.ok THEN Outcome(sender, g)
       ELSE IF provisional_state.path_update_required /\ commit.path = None
           THEN Outcome(Err("CommitMissingPath"), g)
       ELSE IF auth_content.confirmation_tag = None
           THEN Outcome(Err("InvalidConfirmationTag"), g)
       ELSE IF ~CanContinueProcessing(g, provisional_state)
           THEN Outcome(Ok([state_update EXCEPT !.active = FALSE]), g)
       ELSE IF IsSome(provisional_state.reinit)
           THEN Outcome(Ok([state_update EXCEPT !.active = FALSE]),
                        [g EXCEPT !.pending_reinit = provisional_state.reinit])
       ELSE IF commit.path = None
           THEN FinishCommit(g, auth_content, with_epoch, None, state_update)
       ELSE IF ~update_path.ok THEN Outcome(update_path, g)
       ELSE IF ~applied.ok THEN Outcome(applied, g)
       ELSE FinishCommit(g, auth_content,
                         [with_epoch EXCEPT !.public_tree = applied.val.tree],
                         applied.val.secrets, state_update)

\* process_commit, middle part: the checks on the provisional state, then the
\* update path is validated and applied to the provisional tree.
ProcessProvisionalState(g, auth_content, calculated) ==
    LET commit == auth_content.content
        provisional_state == calculated.val
        sender == CommitSender(auth_content.sender, provisional_state)
        state_update == MakeStateUpdate(provisional_state, commit.path, sender.val)
        update_path == ValidateUpdatePath(Unwrap(commit.path), provisional_state,
                                          sender.val)
        with_epoch == [provisional_state EXCEPT
                           !.group_context.epoch = provisional_state.epoch]
        applied == ApplyUpdatePath(g, sender.val, update_path.val, with_epoch,
                                   auth_content)
    IN IF ~calculated.ok THEN Outcome(calculated, g)
       ELSE IF ~sender.ok THEN Outcome(sender, g)
       ELSE IF provisional_state.path_update_required /\ commit.path = None
           THEN Outcome(Err("CommitMissingPath"), g)
       ELSE IF ~CanContinueProcessing(g, provisional_state)
           THEN Outcome(Ok([state_update EXCEPT !.active = FALSE]), g)
       ELSE IF IsSome(provisional_state.reinit)
           THEN Outcome(Ok([state_update EXCEPT !.active = FALSE]),
                        [g EXCEPT !.pending_reinit = provisional_state.reinit])
       ELSE IF commit.path = None
           THEN FinishCommit(g, auth_content, with_epoch, None, state_update)
       ELSE IF ~update_path.ok THEN Outcome(update_path, g)
       ELSE IF ~applied.ok THEN Outcome(applied, g)
       ELSE FinishCommit(g, auth_content,
                         [with_epoch EXCEPT !.public_tree = applied.val.tree],
                         applied.val.secrets, state_update)

\* MessageProcessor::process_commit
ProcessCommit(g, auth_content) ==
    IF auth_content.content_type # "Commit"
        THEN Outcome(Err("NotCommitContent"), g)
    ELSE ProcessProvisionalState(g, auth_content,
                                 CommitProvisionalState(g, auth_content))

\* process_proposal that caches whatever the caller asks.
ProcessProposalAlwaysCaching(g, auth_content, proposal, cache_proposal) ==
    Outcome(Ok(<<proposal, ProposalRefOf(auth_content)>>),
            [g EXCEPT !.proposals =
                 {e \in @ : e.ref # ProposalRefOf(auth_content)}
                 \cup {CacheEntry(ProposalRefOf(auth_content), proposal,
                                  auth_content.sender)}])

\* MessageProcessor::process_proposal
ProcessProposal(g, auth_content, proposal, cache_proposal) ==
    LET proposal_ref == ProposalRefOf(auth_content)
    IN Outcome(Ok(<<proposal, proposal_ref>>),
               IF cache_proposal
               THEN [g EXCEPT !.proposals =
                         {e \in @ : e.ref # proposal_ref}
                         \cup {CacheEntry(proposal_ref, proposal, auth_content.sender)}]
               ELSE g)

\* process_auth_content that reports no authenticated data.
EventOfWithoutData(auth_content, val) ==
    [event |-> val, kind |-> auth_content.content_type,
     sender |-> Some(auth_content.sender),
     authenticated_data |-> ""]

\* The Event of a processed content, as process_auth_content returns it.
EventOf(auth_content, val) ==
    [event |-> val, kind |-> auth_content.content_type,
     sender |-> Some(auth_content.sender),
     authenticated_data |-> auth_content.authenticated_data]

Event(auth_content, done) ==
    Outcome(IF done.res.ok THEN Ok(EventOf(auth_content, done.res.val)) ELSE done.res,
            done.g)

\* MessageProcessor::process_auth_content
ProcessAuthContent(g, auth_content, cache_proposal) ==
    IF auth_content.content_type = "Application"
        THEN Outcome(Ok(EventOf(auth_content, auth_content.content)), g)
    ELSE IF auth_content.content_type = "Commit"
        THEN Event(auth_content, ProcessCommit(g, auth_content))
    ELSE Event(auth_content,
               ProcessProposal(g, auth_content, auth_content.content, cache_proposal))

\* The signature is checked with the key of the sender's leaf in the
\* receiver's tree.
SignedBySender(g, message) ==
    /\ message.sender.kind = "Member"
    /\ message.sender.leaf \in Leaves
    /\ IsSome(g.public_tree.leaves[message.sender.leaf])
    => message.signed_by = Unwrap(g.public_tree.leaves[message.sender.leaf]).cred

\* Group::verify_plaintext_authentication / Group::process_ciphertext: the
\* signature and membership tag of a plaintext are verified, a ciphertext is
\* opened; either yields the authenticated content.
VerifyOrDecrypt(g, message) ==
    IF ~message.auth_ok
        THEN IF message.wire_format = "Plain" THEN Err("SignatureInvalid")
             ELSE Err("AeadOpenFailed")
    ELSE IF ~SignedBySender(g, message) THEN Err("SignatureInvalid")
    ELSE Ok(AuthContentOf(message))

\* process_incoming_message that takes every payload for framed content.
ProcessCheckedAnyPayload(g, message, cache_proposal, content) ==
    IF ~content.ok THEN Outcome(content, g)
    ELSE ProcessAuthContent(g, content.val, cache_proposal)

\* process_incoming_message, after check_metadata: the payload must be
\* framed content, which is verified or decrypted and then processed.
ProcessChecked(g, message, cache_proposal, content) ==
    IF message.wire_format \notin {"Plain", "Cipher"}
        THEN Outcome(ErrArg("UnexpectedMessageType",
                            <<{"Plain", "Cipher"}, message.wire_format>>), g)
    ELSE IF ~content.ok THEN Outcome(content, g)
    ELSE ProcessAuthContent(g, content.val, cache_proposal)

\* MessageProcessor::process_incoming_message_with_time
ProcessIncomingMessage(g, min_epoch_available, message, cache_proposal) ==
    IF ~CheckMetadata(g.context, min_epoch_available, message).ok
        THEN Outcome(CheckMetadata(g.context, min_epoch_available, message), g)
    ELSE ProcessChecked(g, message, cache_proposal, VerifyOrDecrypt(g, message))

-----------------------------------------------------------------------------
(* Commit creation.                                                         *)

\* The configuration of the client: its preferences force_commit_path_update,
\* encryption_mode (the wire format of control messages) and
\* ratchet_tree_extension, and the step of commit_internal, if any, at which
\* one of its capabilities (cipher suite provider, PSK store) reports an
\* error.
Preferences(force_path, wire_format, tree_ext) ==
    [force_commit_path_update |-> force_path, encryption_mode |-> wire_format,
     ratchet_tree_extension |-> tree_ext, fault |-> None]

\* The steps of commit_internal, after the provisional state, that end in `?`.
CommitSteps == {"encap", "psk", "sign", "key_schedule", "welcome"}

FailingAt(preferences, step) == [preferences EXCEPT !.fault = Some(step)]

\* Whether the step is taken and its capability fails: encap is called when
\* the path is updated, the welcome is sealed when a leaf was added.
Fails(preferences, step, taken) == taken /\ preferences.fault = Some(step)

\* TreeKem::encap: the committer's leaf is replaced by a fresh Commit-source
\* leaf (with the new signing identity, when one is given), the parents on
\* its path get fresh keys, and the context takes the new tree hash.
Encap(tree, self_index, context, old_leaf, signing_identity, commit_proposals) ==
    LET root_secret == RootSecret(self_index, context.epoch, commit_proposals)
        leaf == LeafNode(old_leaf.id,
                         IF IsSome(signing_identity) THEN Unwrap(signing_identity)
                         ELSE old_leaf.cred,
                         "Commit", context.epoch)
        new_tree == TreeOf([tree.leaves EXCEPT ![self_index] = Some(leaf)],
                           Some(ParentKeys(root_secret)))
    IN [update_path |-> UpdatePath(leaf, root_secret, TRUE),
        root_secret |-> root_secret,
        tree |-> new_tree,
        context |-> [context EXCEPT !.tree_hash = TreeHash(new_tree)]]

\* GroupInfo of the new epoch.
GroupInfo(context, extensions, confirmation_tag, signer, signed_by) ==
    [group_context |-> context, extensions |-> extensions,
     confirmation_tag |-> confirmation_tag, signer |-> signer,
     signed_by |-> signed_by]

\* Group::make_welcome_message (4.H): no welcome without an added member;
\* otherwise one GroupSecrets entry per added leaf, with the GroupInfo.
MakeWelcomeMessage(context, added_leaves, joiner_secret, root_secret, psks, group_info) ==
    IF added_leaves = <<>> THEN None
    ELSE Some([version |-> context.protocol_version,
               wire_format |-> "Welcome",
               cipher_suite |-> context.cipher_suite,
               secrets |-> [i \in 1..Len(added_leaves) |->
                               [new_member |-> added_leaves[i][1].id,
                                joiner_secret |-> joiner_secret,
                                path_secret |-> root_secret,
                                psks |-> psks]],
               group_info |-> group_info])

\* commit_internal that derives the welcome's joiner secret before the
\* path's commit secret enters the key schedule.
CommitSignedEarlyWelcome(g, group_info_extensions, preferences, provisional_state, self_index, signed_by, public_tree, context, root_secret, unsigned) ==
    LET confirmed_transcript_hash ==
            ConfirmedTranscriptHash(g.interim_transcript_hash, unsigned)
        provisional_group_context ==
            [context EXCEPT !.confirmed_transcript_hash = confirmed_transcript_hash]
        extensions == <<IF preferences.ratchet_tree_extension THEN Some(public_tree)
                        ELSE None,
                        group_info_extensions>>
        key_schedule_result == KeyScheduleFrom(g.key_schedule, CommitSecret(root_secret),
                                               provisional_group_context,
                                               provisional_state.psks)
        confirmation_tag == ConfirmationTag(key_schedule_result.key_schedule,
                                            confirmed_transcript_hash)
        auth_content == [unsigned EXCEPT !.confirmation_tag = Some(confirmation_tag)]
        group_info == GroupInfo(provisional_group_context, extensions,
                                confirmation_tag, self_index, signed_by)
        welcome_message == MakeWelcomeMessage(g.context, provisional_state.added_leaves,
                                              KeyScheduleFrom(g.key_schedule,
                                                              CommitSecret(None),
                                                              provisional_group_context,
                                                              provisional_state.psks)
                                                  .joiner_secret,
                                              root_secret, provisional_state.psks,
                                              group_info)
    IN Outcome(Ok([commit_message |->
                       FormatForWire(g.context.protocol_version, auth_content),
                   welcome_message |-> welcome_message]),
               [g EXCEPT !.pending_commit =
                             Some(CommitGeneration(auth_content, root_secret)),
                         !.self_index = self_index])

\* commit_internal whose welcome is made for the first added leaf only.
CommitSignedWelcomingFirst(g, group_info_extensions, preferences, provisional_state, self_index, signed_by, public_tree, context, root_secret, unsigned) ==
    LET confirmed_transcript_hash ==
            ConfirmedTranscriptHash(g.interim_transcript_hash, unsigned)
        provisional_group_context ==
            [context EXCEPT !.confirmed_transcript_hash = confirmed_transcript_hash]
        extensions == <<IF preferences.ratchet_tree_extension THEN Some(public_tree)
                        ELSE None,
                        group_info_extensions>>
        key_schedule_result == KeyScheduleFrom(g.key_schedule, CommitSecret(root_secret),
                                               provisional_group_context,
                                               provisional_state.psks)
        confirmation_tag == ConfirmationTag(key_schedule_result.key_schedule,
                                            confirmed_transcript_hash)
        auth_content == [unsigned EXCEPT !.confirmation_tag = Some(confirmation_tag)]
        group_info == GroupInfo(provisional_group_context, extensions,
                                confirmation_tag, self_index, signed_by)
        welcome_message == MakeWelcomeMessage(g.context,
                                              SelectSeq(provisional_state.added_leaves,
                                                        LAMBDA added : added = Head(provisional_state.added_leaves)),
                                              key_schedule_result.joiner_secret,
                                              root_secret, provisional_state.psks,
                                              group_info)
    IN Outcome(Ok([commit_message |->
                       FormatForWire(g.context.protocol_version, auth_content),
                   welcome_message |-> welcome_message]),
               [g EXCEPT !.pending_commit =
                             Some(CommitGeneration(auth_content, root_secret)),
                         !.self_index = self_index])

\* commit_internal, last part: the confirmed transcript hash, the key
\* schedule and confirmation tag of the new epoch, the GroupInfo, the welcome
\* and the pending commit.
CommitSigned(g, group_info_extensions, preferences, provisional_state, self_index, signed_by, public_tree, context, root_secret, unsigned) ==
    LET confirmed_transcript_hash ==
            ConfirmedTranscriptHash(g.interim_transcript_hash, unsigned)
        provisional_group_context ==
            [context EXCEPT !.confirmed_transcript_hash = confirmed_transcript_hash]
        extensions == <<IF preferences.ratchet_tree_extension THEN Some(public_tree)
                        ELSE None,
                        group_info_extensions>>
        key_schedule_result == KeyScheduleFrom(g.key_schedule, CommitSecret(root_secret),
                                               provisional_group_context,
                                               provisional_state.psks)
        confirmation_tag == ConfirmationTag(key_schedule_result.key_schedule,
                                            confirmed_transcript_hash)
        auth_content == [unsigned EXCEPT !.confirmation_tag = Some(confirmation_tag)]
        group_info == GroupInfo(provisional_group_context, extensions,
                                confirmation_tag, self_index, signed_by)
        welcome_message == MakeWelcomeMessage(g.context, provisional_state.added_leaves,
                                              key_schedule_result.joiner_secret,
                                              root_secret, provisional_state.psks,
                                              group_info)
    IN Outcome(Ok([commit_message |->
                       FormatForWire(g.context.protocol_version, auth_content),
                   welcome_message |-> welcome_message]),
               [g EXCEPT !.pending_commit =
                             Some(CommitGeneration(auth_content, root_secret)),
                         !.self_index = self_index])

\* commit_internal, middle part: the provisional state enters the new epoch
\* and the committer updates its path when one is required or forced.  An
\* external committer takes the leaf index of its ExternalInit as its
\* self_index before the steps that follow; each of them may fail.
CommitProvisional(g, external_leaf, authenticated_data, group_info_extensions, signing_identity, preferences, sender, commit_proposals, calculated) ==
    LET is_external == IsSome(external_leaf)
        provisional_state == calculated.val
        self_index == IF is_external THEN Unwrap(provisional_state.external_init)[1]
                      ELSE g.self_index
        entered == [provisional_state.group_context EXCEPT !.epoch = @ + 1]
        perform_path_update ==
            preferences.force_commit_path_update \/ provisional_state.path_update_required
        old_leaf == IF is_external THEN Unwrap(external_leaf)
                    ELSE Unwrap(provisional_state.public_tree.leaves[self_index])
        encap_gen == Encap(provisional_state.public_tree, self_index, entered,
                           old_leaf, signing_identity, commit_proposals)
        public_tree == IF perform_path_update THEN encap_gen.tree
                       ELSE provisional_state.public_tree
        unsigned == [wire_format |-> preferences.encryption_mode,
                     group_id |-> g.context.group_id,
                     epoch |-> g.context.epoch,
                     sender |-> sender,
                     authenticated_data |-> authenticated_data,
                     content_type |-> "Commit",
                     content |-> Commit(commit_proposals,
                                        IF perform_path_update
                                        THEN Some(encap_gen.update_path) ELSE None),
                     confirmation_tag |-> None,
                     signed_by |-> old_leaf.cred]
        indexed == IF is_external THEN [g EXCEPT !.self_index = self_index] ELSE g
    IN IF ~calculated.ok THEN Outcome(calculated, g)
       ELSE IF is_external /\ provisional_state.external_init = None
           THEN Outcome(Err("ExternalCommitMissingExternalInit"), g)
       ELSE IF Fails(preferences, "encap", perform_path_update)
           THEN Outcome(Err("RatchetTreeError"), indexed)
       ELSE IF Fails(preferences, "psk", TRUE)
           THEN Outcome(Err("PskNotFound"), indexed)
       ELSE IF Fails(preferences, "sign", TRUE)
           THEN Outcome(Err("SignatureError"), indexed)
       ELSE IF Fails(preferences, "key_schedule", TRUE)
           THEN Outcome(Err("KeyScheduleError"), indexed)
       ELSE IF Fails(preferences, "welcome", provisional_state.added_leaves # <<>>)
           THEN Outcome(Err("HpkeSealFailed"), indexed)
       ELSE CommitSigned(indexed, group_info_extensions, preferences, provisional_state,
                         self_index,
                         IF IsSome(signing_identity) THEN Unwrap(signing_identity)
                         ELSE old_leaf.cred,
                         public_tree,
                         IF perform_path_update THEN encap_gen.context
                         ELSE [entered EXCEPT !.tree_hash = TreeHash(public_tree)],
                         IF perform_path_update THEN Some(encap_gen.root_secret)
                         ELSE None,
                         unsigned)

\* commit_internal that empties the proposal cache once the proposals are
\* prepared.
CommitPreparedDrainingCache(g, external_leaf, authenticated_data, group_info_extensions, signing_identity, preferences, sender, prepared) ==
    IF ~prepared.ok THEN Outcome(prepared, g)
    ELSE CommitProvisional([g EXCEPT !.proposals = {}], external_leaf,
                           authenticated_data, group_info_extensions,
                           signing_identity, preferences, sender,
                           prepared.val.commit_proposals,
                           CalculateProvisionalState(g, prepared.val.effects))

\* commit_internal, after the proposals are prepared.
CommitPrepared(g, external_leaf, authenticated_data, group_info_extensions, signing_identity, preferences, sender, prepared) ==
    IF ~prepared.ok THEN Outcome(prepared, g)
    ELSE CommitProvisional(g, external_leaf, authenticated_data,
                           group_info_extensions, signing_identity, preferences,
                           sender, prepared.val.commit_proposals,
                           CalculateProvisionalState(g, prepared.val.effects))

\* commit_internal that sends every commit as the member at self_index.
CommitSenderOfMember(g, external_leaf) ==
    MemberSender(g.self_index)

\* The sender of a commit: the member's leaf, or a new member for an
\* external commit.
CommitSenderOf(g, external_leaf) ==
    IF IsSome(external_leaf) THEN NewMemberCommitSender ELSE MemberSender(g.self_index)

\* commit_internal without the check of the pending-commit slot.
CommitInternalUnchecked(g, proposals, external_leaf, authenticated_data, group_info_extensions, signing_identity, preferences) ==
    CommitPrepared(g, external_leaf, authenticated_data, group_info_extensions,
                   signing_identity, preferences,
                   CommitSenderOf(g, external_leaf),
                   PrepareCommit(g.proposals, CommitSenderOf(g, external_leaf),
                                 proposals, g.public_tree))

\* commit_internal that leaves the caller's Psk proposals out of the commit.
CommitInternalWithoutPsks(g, proposals, external_leaf, authenticated_data, group_info_extensions, signing_identity, preferences) ==
    IF IsSome(g.pending_commit) THEN Outcome(Err("ExistingPendingCommit"), g)
    ELSE CommitPrepared(g, external_leaf, authenticated_data, group_info_extensions,
                        signing_identity, preferences,
                        CommitSenderOf(g, external_leaf),
                        PrepareCommit(g.proposals, CommitSenderOf(g, external_leaf),
                                      SelectSeq(proposals, LAMBDA it : it.type # "Psk"),
                                      g.public_tree))

\* Group::commit_internal.  The result of a success is the CommitOutput.
CommitInternal(g, proposals, external_leaf, authenticated_data, group_info_extensions, signing_identity, preferences) ==
    IF IsSome(g.pending_commit) THEN Outcome(Err("ExistingPendingCommit"), g)
    ELSE CommitPrepared(g, external_leaf, authenticated_data, group_info_extensions,
                        signing_identity, preferences,
                        CommitSenderOf(g, external_leaf),
                        PrepareCommit(g.proposals, CommitSenderOf(g, external_leaf),
                                      proposals, g.public_tree))

\* Group::apply_pending_commit: the stored commit is processed like a
\* received one, with the secrets kept in the pending-commit slot.
ApplyPendingCommit(g) ==
    IF g.pending_commit = None THEN Outcome(Err("PendingCommitNotFound"), g)
    ELSE ProcessCommit(g, Unwrap(g.pending_commit).content)

\* Client::join_group: a new member's state from the Welcome that names it
\* and the committer's exported tree.  The key schedule starts from the
\* joiner secret, the interim hash from the GroupInfo's confirmation tag.
JoinGroup(party, tree_data, welcome) ==
    LET mine == SelectSeq(welcome.secrets, LAMBDA s : s.new_member = party)
        info == welcome.group_info
        context == info.group_context
        key_schedule == [secret |-> EpochSecret(mine[1].joiner_secret, mine[1].psks,
                                                context)]
    IN IF mine = <<>> THEN Outcome(Err("WelcomeKeyPackageNotFound"), None)
       ELSE IF TreeHash(tree_data) # context.tree_hash
           THEN Outcome(Err("TreeHashMismatch"), None)
       ELSE IF ConfirmationTag(key_schedule, context.confirmed_transcript_hash)
                   # info.confirmation_tag
           THEN Outcome(Err("InvalidConfirmationTag"), None)
       ELSE Outcome(Ok(None),
                    GroupState(context, tree_data, {},
                               InterimTranscriptHash(context.confirmed_transcript_hash,
                                                     Some(info.confirmation_tag)),
                               None, None, key_schedule,
                               Unwrap(LeafOfParty(tree_data, party))))

-----------------------------------------------------------------------------
(* The system: the members' groups, the relay that orders what they send,  *)
(* the welcomes waiting for their joiners, and the last operation with its *)
(* input, its result and the state it started from.                        *)

VARIABLES group, joined, relay, delivered, welcomes, accepted, last

vars == <<group, joined, relay, delivered, welcomes, accepted, last>>

DefaultPreferences == Preferences(FALSE, "Plain", FALSE)

\* Client::create_group: the creator alone at epoch 0.
CreatedGroup ==
    LET tree == TreeOf([l \in Leaves |-> IF l = 0 THEN Some(KeyPackageOf("alice"))
                                         ELSE None], None)
    IN GroupState(GroupContext("mls10", "suite1", "group", 0, TreeHash(tree),
                               EmptyHash, "ext0"),
                  tree, {}, EmptyHash, None, None,
                  [secret |-> Digest(<<Atom("created")>>)], 0)

NotJoined ==
    GroupState(GroupContext("", "", "", 0, EmptyHash, EmptyHash, ""),
               TreeOf([l \in Leaves |-> None], None), {}, EmptyHash, None, None,
               [secret |-> EmptyHash], 0)

\* get_test_groups with two participants: alice creates the group, commits
\* the Add of bob and applies it; bob joins from the welcome and her tree.
TestGroups ==
    LET built == CommitInternal(CreatedGroup, <<AddProposal("bob")>>, None, "", "",
                                None, DefaultPreferences)
        creator == ApplyPendingCommit(built.g).g
        bob == JoinGroup("bob", creator.public_tree,
                         Unwrap(built.res.val.welcome_message)).g
    IN [p \in Parties |-> IF p = "alice" THEN creator
                          ELSE IF p = "bob" THEN bob ELSE NotJoined]

\* What one party did in an operation, and the operation itself: its kind,
\* the input of the caller or the message handled, each party's part, and
\* the system as it was before it, so that what the operation changed can be
\* stated of the state it leaves.
Done(op, res) == [op |-> op, res |-> res]
Operation(op, input, msg, by) ==
    [op |-> op, input |-> input, msg |-> msg, by |-> by,
     before |-> [group |-> group, joined |-> joined, relay |-> relay,
                 delivered |-> delivered, welcomes |-> welcomes, accepted |-> accepted]]
Only(p, op, res) == [q \in Parties |-> IF q = p THEN Some(Done(op, res)) ELSE None]

\* The identity of a commit: its content and confirmation tag.
CommitId(auth_content) ==
    Digest(<<EncodeContent(auth_content),
             IF auth_content.confirmation_tag = <<>> THEN Absent
             ELSE Present(Unwrap(auth_content.confirmation_tag))>>)

\* A commit as a member's history keeps it: the epoch it is tagged with and
\* its identity.
CommitEntry(auth_content) ==
    [epoch |-> auth_content.epoch, id |-> CommitId(auth_content)]

\* A member accepts a commit when the call succeeds and reports the group
\* active: the commit is installed as the member's new epoch.
Accepts(op, res) ==
    /\ res.ok
    /\ \/ op = "apply" /\ res.val.active
       \/ op = "process" /\ res.val.kind = "Commit" /\ res.val.event.active

Init ==
    /\ group = TestGroups
    /\ joined = Founders
    /\ relay = <<>>
    /\ delivered = 0
    /\ welcomes = {}
    /\ accepted = [p \in Parties |-> <<>>]
    /\ last = Operation("get_test_groups", None, None, [q \in Parties |-> None])

\* What a caller hands to the commit builder: the proposals, and whether the
\* client forces a path update.
BuilderInputs ==
    {<<<<>>, FALSE>>, <<<<AddProposal("carol")>>, FALSE>>,
     <<<<AddProposal("carol")>>, TRUE>>, <<<<ReInitProposal("ext1")>>, FALSE>>,
     <<<<ReInitProposal("ext1")>>, TRUE>>,
     <<<<CustomProposal(FALSE)>>, FALSE>>,
     <<<<GroupContextExtensionsProposal("ext1")>>, FALSE>>}
    \cup {<<<<RemoveProposal(l)>>, FALSE>> : l \in Leaves}

\* The commit message goes to the relay, with a note of who sent it and
\* what its builder was given; the welcome waits for its joiner.
Built(p, input, out) ==
    /\ group' = [group EXCEPT ![p] = out.g]
    /\ last' = Operation("commit", Some(input), None, Only(p, "commit", out.res))
    /\ IF out.res.ok
       THEN /\ relay' = Append(relay, [message |-> out.res.val.commit_message,
                                       from |-> p, input |-> Some(input)])
            /\ welcomes' =
                   IF IsSome(out.res.val.welcome_message)
                   THEN welcomes \cup
                        {[welcome |-> Unwrap(out.res.val.welcome_message),
                          committer |-> p,
                          commit |-> CommitEntry(AuthContentOf(out.res.val.commit_message)),
                          applied |-> None]}
                   ELSE welcomes
       ELSE UNCHANGED <<relay, welcomes>>
    /\ UNCHANGED <<joined, delivered, accepted>>

\* A member builds a commit (Group::commit, CommitBuilder::build).
BuildCommit(p, input) ==
    /\ p \in joined
    /\ Len(relay) < MaxLog
    /\ Built(p, input, CommitInternal(group[p], input[1], None, "", "", None,
                                      Preferences(input[2], "Plain", FALSE)))

ProposalContent(g, proposal, wire_format) ==
    [wire_format |-> wire_format, group_id |-> g.context.group_id,
     epoch |-> g.context.epoch, sender |-> MemberSender(g.self_index),
     authenticated_data |-> "", content_type |-> "Proposal",
     content |-> proposal, confirmation_tag |-> None,
     signed_by |-> IF IsSome(g.public_tree.leaves[g.self_index])
                   THEN Unwrap(g.public_tree.leaves[g.self_index]).cred ELSE ""]

\* Group::propose_*: a member sends a proposal for its current epoch and
\* keeps it in its own cache.
SendProposal(p, proposal, wire_format) ==
    /\ p \in joined
    /\ Len(relay) < MaxLog
    /\ group' = [group EXCEPT ![p] =
                     ProcessProposal(@, ProposalContent(@, proposal, wire_format),
                                     proposal, TRUE).g]
    /\ relay' = Append(relay,
                       [message |-> FormatForWire(group[p].context.protocol_version,
                                                  ProposalContent(group[p], proposal,
                                                                  wire_format)),
                        from |-> p, input |-> None])
    /\ last' = Operation("propose", Some(<<proposal, wire_format>>), None,
                         Only(p, "propose", Ok(None)))
    /\ UNCHANGED <<joined, delivered, welcomes, accepted>>

IsOwnPending(g, message) ==
    /\ IsSome(g.pending_commit)
    /\ Unwrap(g.pending_commit).content = AuthContentOf(message)

\* all_process_message, one member's part: the sender of a commit applies
\* its pending commit when the message is that commit, and does not process
\* its own proposal; otherwise the member processes the message.
Handle(g, p, entry) ==
    IF entry.from = p /\ entry.message.content_type # "Commit"
        THEN [op |-> "skip", out |-> Outcome(Ok(None), g)]
    ELSE IF entry.from = p /\ IsOwnPending(g, entry.message)
        THEN [op |-> "apply", out |-> ApplyPendingCommit(g)]
    ELSE [op |-> "process",
          out |-> ProcessIncomingMessage(g, None, entry.message, TRUE)]

\* The commits a member accepted, with the one it accepts now.
AcceptedWith(seq, op, res, auth_content) ==
    IF Accepts(op, res) THEN Append(seq, CommitEntry(auth_content)) ELSE seq

Handled(message, handled) ==
    /\ group' = [p \in Parties |-> IF p \in joined THEN handled[p].out.g ELSE group[p]]
    /\ accepted' = [p \in Parties |->
                       IF p \in joined
                       THEN AcceptedWith(accepted[p], handled[p].op, handled[p].out.res,
                                         AuthContentOf(message))
                       ELSE accepted[p]]
    /\ welcomes' = {IF /\ w.commit = CommitEntry(AuthContentOf(message))
                       /\ w.applied = None
                       /\ Accepts(handled[w.committer].op, handled[w.committer].out.res)
                    THEN [w EXCEPT !.applied =
                              Some([g |-> handled[w.committer].out.g,
                                    accepted |-> Append(accepted[w.committer], w.commit)])]
                    ELSE w : w \in welcomes}
    /\ last' = Operation("deliver", None, Some(message),
                         [p \in Parties |->
                             IF p \in joined
                             THEN Some(Done(handled[p].op, handled[p].out.res))
                             ELSE None])

\* all_process_message: the relay delivers its next message to every member.
Deliver ==
    /\ delivered < Len(relay)
    /\ Handled(relay[delivered + 1].message,
               [p \in Parties |-> Handle(group[p], p, relay[delivered + 1])])
    /\ delivered' = delivered + 1
    /\ UNCHANGED <<joined, relay>>

Processed(p, kind, op, msg, auth_content, out) ==
    /\ group' = [group EXCEPT ![p] = out.g]
    /\ accepted' = [accepted EXCEPT ![p] = AcceptedWith(@, op, out.res, auth_content)]
    /\ last' = Operation(kind, None, msg, Only(p, op, out.res))

\* A party joins from the welcome of a commit that its committer applied,
\* with the tree the committer exported then.
Welcomed(p, w, out) ==
    /\ last' = Operation("join", Some(w), None, Only(p, "join", out.res))
    /\ IF out.res.ok
       THEN /\ group' = [group EXCEPT ![p] = out.g]
            /\ joined' = joined \cup {p}
            /\ accepted' = [accepted EXCEPT ![p] = Unwrap(w.applied).accepted]
       ELSE UNCHANGED <<group, joined, accepted>>

Join(p, w) ==
    /\ p \notin joined
    /\ w \in welcomes
    /\ IsSome(w.applied)
    /\ Welcomed(p, w, JoinGroup(p, Unwrap(w.applied).g.public_tree, w.welcome))
    /\ UNCHANGED <<relay, delivered, welcomes>>

Next ==
    \/ \E p \in Parties, input \in BuilderInputs : BuildCommit(p, input)
    \/ \E p \in Parties, wire_format \in {"Plain", "Cipher"} :
           SendProposal(p, UpdateProposal(group[p].context.epoch + 1), wire_format)
    \/ Deliver
    \/ \E p \in Parties, w \in welcomes : Join(p, w)

Spec == Init /\ [][Next]_vars

-----------------------------------------------------------------------------
(* The same system with everything else that may reach a member: messages  *)
(* changed on their way, messages delivered again, and a call of           *)
(* apply_pending_commit that finds nothing pending.                        *)

\* What can happen to a message on its way to one member.
TamperKinds ==
    {"version", "group_id", "epoch_up", "epoch_down", "payload", "cipher",
     "cipher_epoch", "application", "signature", "proposals",
     "custom_path",
     "no_tag", "bad_tag", "no_path", "bad_leaf", "bad_ciphertext"}

Applicable(m, kind) ==
    IF kind \in {"cipher", "proposals", "custom_path", "no_tag", "bad_tag"}
        THEN m.content_type = "Commit"
    ELSE IF kind \in {"no_path", "bad_leaf", "bad_ciphertext"}
        THEN m.content_type = "Commit" /\ IsSome(m.content.path)
    ELSE TRUE

Tamper(m, kind) ==
    CASE kind = "version" -> [m EXCEPT !.version = "mls_other"]
      [] kind = "group_id" -> [m EXCEPT !.group_id = "other_group"]
      [] kind = "epoch_up" -> [m EXCEPT !.epoch = @ + 1]
      [] kind = "epoch_down" -> [m EXCEPT !.epoch = @ - 1]
      [] kind = "payload" -> [m EXCEPT !.wire_format = "Welcome"]
      [] kind = "cipher" -> [m EXCEPT !.wire_format = "Cipher"]
      [] kind = "cipher_epoch" -> [m EXCEPT !.wire_format = "Cipher", !.epoch = @ + 1]
      [] kind = "application" ->
             [m EXCEPT !.content_type = "Application", !.content = "payload",
                       !.confirmation_tag = None]
      [] kind = "signature" -> [m EXCEPT !.auth_ok = FALSE]
      [] kind = "proposals" ->
             [m EXCEPT !.content.proposals =
                           <<ByValue(RemoveProposal(m.sender.leaf))>>]
      [] kind = "custom_path" ->
             [m EXCEPT !.content.proposals = <<ByValue(CustomProposal(TRUE))>>]
      [] kind = "no_tag" -> [m EXCEPT !.confirmation_tag = None]
      [] kind = "bad_tag" -> [m EXCEPT !.confirmation_tag = Some(EmptyHash)]
      [] kind = "no_path" -> [m EXCEPT !.content.path = None]
      [] kind = "bad_leaf" ->
             [m EXCEPT !.content.path =
                           Some([Unwrap(@) EXCEPT !.leaf_node.source = "Update"])]
      [] kind = "bad_ciphertext" ->
             [m EXCEPT !.content.path = Some([Unwrap(@) EXCEPT !.ct_ok = FALSE])]

Received(p, kind, message) ==
    /\ Processed(p, kind, "process", Some(message), AuthContentOf(message),
                 ProcessIncomingMessage(group[p], None, message, TRUE))
    /\ UNCHANGED <<joined, relay, delivered, welcomes>>

\* A member receives a message that is not what the relay holds: the next
\* message of the relay, changed on its way from another member.
Inject(p, kind) ==
    /\ p \in joined
    /\ delivered < Len(relay)
    /\ relay[delivered + 1].from # p
    /\ Applicable(relay[delivered + 1].message, kind)
    /\ Received(p, "inject", Tamper(relay[delivered + 1].message, kind))

\* A member receives again the message of another member that the relay
\* delivered last.
Replay(p) ==
    /\ p \in joined
    /\ delivered > 0
    /\ relay[delivered].from # p
    /\ Received(p, "replay", relay[delivered].message)

\* apply_pending_commit called with nothing pending.
ApplyNothing(p) ==
    /\ p \in joined
    /\ group[p].pending_commit = None
    /\ Processed(p, "apply", "apply", None, None, ApplyPendingCommit(group[p]))
    /\ UNCHANGED <<joined, relay, delivered, welcomes>>

FullNext ==
    \/ Next
    \/ \E p \in Parties, kind \in TamperKinds : Inject(p, kind)
    \/ \E p \in Parties : Replay(p)
    \/ \E p \in Parties : ApplyNothing(p)

FullSpec == Init /\ [][FullNext]_vars

-----------------------------------------------------------------------------
(* The honest system again, with everything the commit builder can be      *)
(* given: several proposals at once, authenticated data and a new signing  *)
(* identity.                                                               *)

\* The identity a member's keychain holds besides the one of its leaf.
NewIdentity(p) ==
    CASE p = "alice" -> "alice2" [] p = "bob" -> "bob2" [] OTHER -> "carol2"

BuilderCall(proposals, force_path, authenticated_data, new_identity) ==
    [proposals |-> proposals, force_path |-> force_path,
     authenticated_data |-> authenticated_data, new_identity |-> new_identity]

\* The builder chains of the tests, and one chain for every kind of proposal
\* the builder takes.
BuilderCalls ==
    {BuilderCall(<<>>, FALSE, "", FALSE),
     BuilderCall(<<>>, FALSE, "aad1", FALSE),
     BuilderCall(<<>>, FALSE, "", TRUE),
     BuilderCall(<<AddProposal("carol")>>, FALSE, "aad1", TRUE),
     BuilderCall(<<AddProposal("bob"), AddProposal("carol")>>, TRUE, "", FALSE),
     BuilderCall(<<AddProposal("carol"), PskProposal("psk1"), CustomProposal(FALSE)>>,
                 FALSE, "", FALSE),
     BuilderCall(<<GroupContextExtensionsProposal("ext1"), PskProposal("psk1")>>,
                 FALSE, "aad1", FALSE),
     BuilderCall(<<ReInitProposal("ext1")>>, FALSE, "", FALSE),
     BuilderCall(<<RemoveProposal(1)>>, FALSE, "", FALSE)}

\* CommitBuilder::build with the chain's proposals, authenticated data and
\* signing identity.
BuildWith(p, call) ==
    /\ p \in joined
    /\ Len(relay) < MaxLog
    /\ Built(p, call,
             CommitInternal(group[p], call.proposals, None, call.authenticated_data,
                            "", IF call.new_identity THEN Some(NewIdentity(p)) ELSE None,
                            Preferences(call.force_path, "Plain", FALSE)))

\* The group object of an external commit: the public state of the group
\* as a member's GroupInfo and tree give it, no proposals, nothing pending.
ExternalGroup(g) ==
    GroupState(g.context, g.public_tree, {}, g.interim_transcript_hash, None, None,
               g.key_schedule, 0)

\* What commit_internal is handed together with an external leaf.
ExternalProposals ==
    {<<>>, <<ExternalInitProposal>>, <<PskProposal("psk1")>>,
     <<ExternalInitProposal, PskProposal("psk1")>>,
     <<ExternalInitProposal, ExternalInitProposal>>}
    \cup {<<RemoveProposal(l)>> : l \in {1}}
    \cup {<<ExternalInitProposal, RemoveProposal(l)>> : l \in {1}}

\* commit_internal with an external leaf: a party outside the group commits
\* itself in, from the public state that member q gives out.  The commit
\* message goes to the relay; the group object stays with the party.
ExternalCommit(p, q, proposals) ==
    /\ p \notin joined
    /\ q \in joined
    /\ LeafOfParty(group[q].public_tree, p) = None
    /\ Len(relay) < MaxLog
    /\ LET out == CommitInternal(ExternalGroup(group[q]), proposals,
                                 Some(KeyPackageOf(p)), "", "", None, DefaultPreferences)
       IN /\ group' = [group EXCEPT ![p] = out.g]
          /\ last' = Operation("external_commit", Some(proposals), None,
                               Only(p, "external_commit", out.res))
          /\ relay' = IF out.res.ok
                      THEN Append(relay, [message |-> out.res.val.commit_message,
                                          from |-> p, input |-> None])
                      ELSE relay
    /\ UNCHANGED <<joined, delivered, welcomes, accepted>>

BuilderNext ==
    \/ \E p \in Parties, call \in BuilderCalls : BuildWith(p, call)
    \/ \E p, q \in Parties, proposals \in ExternalProposals :
           ExternalCommit(p, q, proposals)
    \/ \E p \in Parties, wire_format \in {"Plain", "Cipher"} :
           SendProposal(p, UpdateProposal(group[p].context.epoch + 1), wire_format)
    \/ Deliver
    \/ \E p \in Parties, w \in welcomes : Join(p, w)

BuilderSpec == Init /\ [][BuilderNext]_vars

-----------------------------------------------------------------------------
(* Reception with every input of process_incoming_message: the message as  *)
(* it arrives (any wire format, version, group id and epoch, or            *)
(* application data), cache_proposal, and the oldest epoch the member's    *)
(* epoch store still holds (min_epoch_available).                          *)

\* How a message arrives: in another wire format (or its own), with the
\* group's version and id or others, with its epoch shifted, and as what it
\* was or as application data.
Arrival(wire_format, version_ok, group_ok, epoch_shift, application) ==
    [wire_format |-> wire_format, version_ok |-> version_ok, group_ok |-> group_ok,
     epoch_shift |-> epoch_shift, application |-> application]

AsSent == Arrival(None, TRUE, TRUE, 0, FALSE)

Arriving(m, arrival) ==
    LET framed == [m EXCEPT !.wire_format = IF IsSome(arrival.wire_format)
                                            THEN Unwrap(arrival.wire_format) ELSE @,
                            !.version = IF arrival.version_ok THEN @ ELSE "mls_other",
                            !.group_id = IF arrival.group_ok THEN @ ELSE "other_group",
                            !.epoch = @ + arrival.epoch_shift]
    IN IF arrival.application
       THEN [framed EXCEPT !.content_type = "Application", !.content = "payload",
                           !.confirmation_tag = None]
       ELSE framed

\* One call of process_incoming_message: the arrival, the epochs the store
\* holds behind the current one (None when it reports no minimum), and
\* cache_proposal.
ReceiveCall(arrival, epochs_held, cache_proposal) ==
    [arrival |-> arrival, epochs_held |-> epochs_held, cache_proposal |-> cache_proposal]

ReceiveCalls ==
    {ReceiveCall(AsSent, None, cache) : cache \in BOOLEAN}
    \cup {ReceiveCall(Arrival(Some(w), v, ok, IF ok THEN 0 ELSE 1, FALSE), None, TRUE) :
              w \in {"Welcome", "GroupInfo", "KeyPackage"}, v \in BOOLEAN,
              ok \in BOOLEAN}
    \cup {ReceiveCall(Arrival(None, v, g, e, FALSE), None, TRUE) :
              v \in BOOLEAN, g \in BOOLEAN, e \in {0, 1}}
    \cup {ReceiveCall(Arrival(Some(w), TRUE, g, e, TRUE), held, TRUE) :
              w \in {"Plain", "Cipher"}, g \in {TRUE}, e \in {-1, 0, 1},
              held \in {None, Some(0), Some(1)}}
    \cup {ReceiveCall(Arrival(Some("Plain"), v, FALSE, -1, TRUE), Some(0), TRUE) :
              v \in BOOLEAN}

\* min_epoch_available of a member whose store holds that many epochs
\* behind the current one.
MinEpochAvailable(g, epochs_held) ==
    IF IsSome(epochs_held) THEN Some(g.context.epoch - Unwrap(epochs_held)) ELSE None

\* The commits whose receptions are followed here.
ReceiveBuilderInputs ==
    {<<<<>>, FALSE>>, <<<<RemoveProposal(1)>>, FALSE>>,
     <<<<ReInitProposal("ext1")>>, FALSE>>}

\* A member is handed the relay's next message of another member, arriving
\* in some way, and processes it.
Receive(p, call) ==
    /\ p \in joined
    /\ delivered < Len(relay)
    /\ relay[delivered + 1].from # p
    /\ LET message == Arriving(relay[delivered + 1].message, call.arrival)
           out == ProcessIncomingMessage(group[p],
                                         MinEpochAvailable(group[p], call.epochs_held),
                                         message, call.cache_proposal)
       IN /\ group' = [group EXCEPT ![p] = out.g]
          /\ accepted' = [accepted EXCEPT ![p] =
                              AcceptedWith(@, "process", out.res, AuthContentOf(message))]
          /\ last' = Operation("receive", Some(call), Some(message),
                               Only(p, "process", out.res))
    /\ UNCHANGED <<joined, relay, delivered, welcomes>>

ReceiveNext ==
    \/ \E p \in Parties, input \in ReceiveBuilderInputs : BuildCommit(p, input)
    \/ \E p \in Parties, wire_format \in {"Plain", "Cipher"} :
           SendProposal(p, UpdateProposal(group[p].context.epoch + 1), wire_format)
    \/ Deliver
    \/ \E p \in Parties, call \in ReceiveCalls : Receive(p, call)

ReceiveSpec == Init /\ [][ReceiveNext]_vars

-----------------------------------------------------------------------------
(* Commits that fail: requests that the proposal rules refuse, external    *)
(* commits without an ExternalInit, and requests during which a capability *)
(* of the client fails at one of the later steps of commit_internal.       *)

\* The requests followed here; a member that asks for the removal of leaf 0
\* or of leaf 1 may be asking for its own.
FaultBuilderInputs ==
    {<<<<>>, FALSE>>, <<<<AddProposal("carol")>>, TRUE>>}
    \cup {<<<<RemoveProposal(l)>>, FALSE>> : l \in {0, 1}}

\* Group::commit while a capability fails at the step, if the step is taken.
CommitFailing(p, input, step) ==
    /\ p \in joined
    /\ Len(relay) < MaxLog
    /\ Built(p, input, CommitInternal(group[p], input[1], None, "", "", None,
                                      FailingAt(Preferences(input[2], "Plain", FALSE),
                                                step)))

\* An external commit from the public state of member q, with the client's
\* capabilities working (no step) or failing at the step.
ExternalCommitFailing(p, q, proposals, fault) ==
    /\ p \notin joined
    /\ q \in joined
    /\ LeafOfParty(group[q].public_tree, p) = None
    /\ Len(relay) < MaxLog
    /\ LET out == CommitInternal(ExternalGroup(group[q]), proposals,
                                 Some(KeyPackageOf(p)), "", "", None,
                                 [DefaultPreferences EXCEPT !.fault = fault])
       IN /\ group' = [group EXCEPT ![p] = out.g]
          /\ last' = Operation("external_commit", Some(proposals), None,
                               [Only(p, "external_commit", out.res) EXCEPT
                                    ![q] = Some(Done("export", Ok(None)))])
          /\ relay' = IF out.res.ok
                      THEN Append(relay, [message |-> out.res.val.commit_message,
                                          from |-> p, input |-> None])
                      ELSE relay
    /\ UNCHANGED <<joined, delivered, welcomes, accepted>>

FaultNext ==
    \/ \E p \in Parties, input \in FaultBuilderInputs : BuildCommit(p, input)
    \/ \E p \in Parties, input \in FaultBuilderInputs, step \in CommitSteps :
           CommitFailing(p, input, step)
    \/ \E p, q \in Parties, proposals \in {<<>>, <<ExternalInitProposal>>},
          fault \in {None} \cup {Some(step) : step \in CommitSteps} :
           ExternalCommitFailing(p, q, proposals, fault)
    \/ \E p \in Parties, wire_format \in {"Plain"} :
           SendProposal(p, UpdateProposal(group[p].context.epoch + 1), wire_format)
    \/ Deliver

FaultSpec == Init /\ [][FaultNext]_vars

-----------------------------------------------------------------------------
(* The proposal filters on their own: a filter and a proposal bundle are   *)
(* chosen, and the filter validates the bundle or filters it, step after   *)
(* step.  `last` is the step last taken; the groups play no part.          *)

MaxBundle == 3

\* The proposals a bundle is made of: Removes of two leaves, Updates of the
\* members at those leaves and of a sender that is no member, an Add and an
\* ExternalInit.
ProposalPool ==
    {BundleItem(RemoveProposal(l), MemberSender(2), None) : l \in {0, 1}}
    \cup {BundleItem(UpdateProposal(1), MemberSender(l), None) : l \in {0, 1}}
    \cup {BundleItem(UpdateProposal(1), NewMemberCommitSender, None),
          BundleItem(AddProposal("carol"), MemberSender(2), None),
          BundleItem(ExternalInitProposal, NewMemberCommitSender, None)}

Bundles == UNION {[1..n -> ProposalPool] : n \in 0..MaxBundle}

\* The rules and the combinations a.and(b) of two of them.
Filters == Rules \cup {And(a, b) : a, b \in Rules}

FilterOperation(op, f, bundle, res) ==
    [op |-> op, filter |-> f, bundle |-> bundle, res |-> res]

\* The bundle the caller holds after a step: what filter returned, or the
\* bundle that validate borrowed.
CurrentBundle(step) == IF step.op = "filter" THEN step.res.val ELSE step.bundle

FilterInit ==
    /\ \E f \in Filters, bundle \in Bundles :
           last = FilterOperation("bundle", f, bundle, Ok(bundle))
    /\ group = [p \in Parties |-> NotJoined]
    /\ joined = {}
    /\ relay = <<>>
    /\ delivered = 0
    /\ welcomes = {}
    /\ accepted = [p \in Parties |-> <<>>]

\* filter.validate(&bundle)
Validated ==
    /\ last.op # "validate"
    /\ last.res.ok
    /\ last' = FilterOperation("validate", last.filter, CurrentBundle(last),
                               Validate(last.filter, CurrentBundle(last)))
    /\ UNCHANGED <<group, joined, relay, delivered, welcomes, accepted>>

\* filter.filter(bundle): a bundle that filter consumed and did not return
\* is gone.
Filtered ==
    /\ last.op = "filter" => last.res.ok
    /\ last' = FilterOperation("filter", last.filter, CurrentBundle(last),
                               Filter(last.filter, CurrentBundle(last)))
    /\ UNCHANGED <<group, joined, relay, delivered, welcomes, accepted>>

FilterNext == Validated \/ Filtered

FilterSpec == FilterInit /\ [][FilterNext]_vars

-----------------------------------------------------------------------------
(* The AEAD of the RustCrypto provider on its own: a cipher, a key, a       *)
(* plaintext and associated data are chosen, the plaintext is sealed, and   *)
(* the result or any other byte string is opened.  `last` is the call last  *)
(* made; the groups play no part.  A byte string is its length and what it  *)
(* holds.                                                                   *)

MaxKeyLen == 33
MaxDataLen == 2

TAG_LEN == 16
NONCE_LEN == 12

Aeads == {"Aes128Gcm", "Aes256Gcm", "Chacha20Poly1305"}

\* Aead::key_size
KeySize(aead) == IF aead = "Aes128Gcm" THEN 16 ELSE 32

\* vec![42u8; len]
Bytes(len) == [len |-> len, sealed |-> None]

\* What the cipher puts out: the plaintext and the tag, under the cipher,
\* key, associated data and nonce that sealed it.
Ciphertext(aead, key, data, aad, nonce) ==
    [len |-> data.len + TAG_LEN,
     sealed |-> Some([aead |-> aead, key |-> key, data |-> data, aad |-> aad,
                      nonce |-> nonce])]

\* aad.unwrap_or_default()
AadOrDefault(aad) == IF aad = None THEN "" ELSE Unwrap(aad)

\* encrypt_aead_trait: GenericArray::from_slice panics on a nonce that is
\* not NONCE_LEN bytes long.
EncryptAeadTrait(aead, key, data, aad, nonce) ==
    IF nonce.len # NONCE_LEN THEN Err("panic")
    ELSE Ok(Ciphertext(aead, key, data, AadOrDefault(aad), nonce))

\* decrypt_aead_trait: the plaintext comes back under the cipher, key,
\* associated data and nonce that sealed it, and under nothing else.
DecryptAeadTrait(aead, key, ciphertext, aad, nonce) ==
    IF nonce.len # NONCE_LEN THEN Err("panic")
    ELSE IF /\ IsSome(ciphertext.sealed)
            /\ Unwrap(ciphertext.sealed).aead = aead
            /\ Unwrap(ciphertext.sealed).key = key
            /\ Unwrap(ciphertext.sealed).aad = AadOrDefault(aad)
            /\ Unwrap(ciphertext.sealed).nonce = nonce
        THEN Ok(Unwrap(ciphertext.sealed).data)
    ELSE Err("RcAeadError")

\* seal that looks at the key before the plaintext.
SealCheckingKeyFirst(aead, key, data, aad, nonce) ==
    IF key.len # KeySize(aead)
        THEN ErrArg("InvalidKeyLen", <<key.len, KeySize(aead)>>)
    ELSE IF data.len = 0 THEN Err("EmptyPlaintext")
    ELSE EncryptAeadTrait(aead, key, data, aad, nonce)

\* Aead::seal
Seal(aead, key, data, aad, nonce) ==
    IF data.len = 0 THEN Err("EmptyPlaintext")
    ELSE IF key.len # KeySize(aead)
        THEN ErrArg("InvalidKeyLen", <<key.len, KeySize(aead)>>)
    ELSE EncryptAeadTrait(aead, key, data, aad, nonce)

\* open that lets a ciphertext of the tag's length through.
OpenAcceptingTagLength(aead, key, ciphertext, aad, nonce) ==
    IF ciphertext.len < TAG_LEN THEN ErrArg("InvalidCipherLen", ciphertext.len)
    ELSE IF key.len # KeySize(aead)
        THEN ErrArg("InvalidKeyLen", <<key.len, KeySize(aead)>>)
    ELSE DecryptAeadTrait(aead, key, ciphertext, aad, nonce)

\* Aead::open
Open(aead, key, ciphertext, aad, nonce) ==
    IF ~(ciphertext.len > TAG_LEN) THEN ErrArg("InvalidCipherLen", ciphertext.len)
    ELSE IF key.len # KeySize(aead)
        THEN ErrArg("InvalidKeyLen", <<key.len, KeySize(aead)>>)
    ELSE DecryptAeadTrait(aead, key, ciphertext, aad, nonce)

Keys == {Bytes(n) : n \in 0..MaxKeyLen}
Plaintexts == {Bytes(n) : n \in 0..MaxDataLen}
Nonces == {Bytes(NONCE_LEN), Bytes(NONCE_LEN - 1)}
AssociatedData == {None, Some("aad1")}

\* The byte strings that no cipher put out, up to the longest ciphertext.
OtherCiphertexts == {Bytes(n) : n \in 0..(TAG_LEN + MaxDataLen)}

AeadOperation(op, aead, key, data, aad, nonce, res) ==
    [op |-> op, aead |-> aead, key |-> key, data |-> data, aad |-> aad,
     nonce |-> nonce, res |-> res]

AeadInit ==
    /\ \E aead \in Aeads, key \in Keys, data \in Plaintexts, aad \in AssociatedData :
           last = AeadOperation("new", aead, key, data, aad, Bytes(NONCE_LEN), Ok(None))
    /\ group = [p \in Parties |-> NotJoined]
    /\ joined = {}
    /\ relay = <<>>
    /\ delivered = 0
    /\ welcomes = {}
    /\ accepted = [p \in Parties |-> <<>>]

\* aead.seal(&key, &data, aad, &nonce)
Sealing(nonce) ==
    /\ last.op = "new"
    /\ last' = AeadOperation("seal", last.aead, last.key, last.data, last.aad, nonce,
                             Seal(last.aead, last.key, last.data, last.aad, nonce))
    /\ UNCHANGED <<group, joined, relay, delivered, welcomes, accepted>>

\* aead.open(&key, &ciphertext, aad, &nonce), of what seal returned or of
\* other bytes.
Opening(key, ciphertext, aad, nonce) ==
    /\ last.op = "seal"
    /\ \/ ciphertext \in OtherCiphertexts
       \/ last.res.ok /\ ciphertext = last.res.val
    /\ last' = AeadOperation("open", last.aead, key, ciphertext, aad, nonce,
                             Open(last.aead, key, ciphertext, aad, nonce))
    /\ UNCHANGED <<group, joined, relay, delivered, welcomes, accepted>>

AeadNext ==
    \/ \E nonce \in Nonces : Sealing(nonce)
    \/ \E key \in Keys, aad \in AssociatedData, nonce \in Nonces :
           \E ciphertext \in OtherCiphertexts \cup
                   (IF last.res.ok /\ last.op = "seal" THEN {last.res.val} ELSE {}) :
               Opening(key, ciphertext, aad, nonce)

AeadSpec == AeadInit /\ [][AeadNext]_vars

-----------------------------------------------------------------------------
(* Key package references on their own: a key package is chosen and its    *)
(* reference is computed with one cipher suite provider or another.  `last` *)
(* is the call last made; the groups play no part.                         *)

\* The cipher suites of the providers, by their wire values.
CipherSuites == {1, 2, 3}

KeyPackage(version, cipher_suite, hpke_init_key, leaf_node, extensions, signature) ==
    [version |-> version, cipher_suite |-> cipher_suite,
     hpke_init_key |-> hpke_init_key, leaf_node |-> leaf_node,
     extensions |-> extensions, signature |-> signature]

\* A cipher suite provider: its suite, and which provider object it is.
CipherSuiteProvider(cipher_suite, instance) ==
    [cipher_suite |-> cipher_suite, instance |-> instance]

\* tls_serialize_detached: the fields in their order.
TlsSerializeKeyPackage(kp) ==
    <<Atom(kp.version), Word(kp.cipher_suite), Atom(kp.hpke_init_key),
      EncodeLeafNode(kp.leaf_node), Atom(kp.extensions), Atom(kp.signature)>>

\* HashReference::compute: the hash of the provider's suite over the label
\* and the value.
HashReferenceCompute(value, label, provider) ==
    Digest(<<Word(provider.cipher_suite), Atom(label)>> \o value)

\* to_reference whose hash takes in the provider object.
ToReferencePerProvider(kp, provider) ==
    IF provider.cipher_suite # kp.cipher_suite
        THEN ErrArg("InvalidCipherSuite", provider.cipher_suite)
    ELSE Ok(Digest(<<HashReferenceCompute(TlsSerializeKeyPackage(kp),
                                          "MLS 1.0 KeyPackage Reference", provider),
                     Word(provider.instance)>>))

\* KeyPackage::to_reference
ToReference(kp, provider) ==
    IF provider.cipher_suite # kp.cipher_suite
        THEN ErrArg("InvalidCipherSuite", provider.cipher_suite)
    ELSE Ok(HashReferenceCompute(TlsSerializeKeyPackage(kp),
                                 "MLS 1.0 KeyPackage Reference", provider))

\* Key packages of every suite, and of a wire value that names no suite.
KeyPackages ==
    {KeyPackage("mls10", cipher_suite, hpke_init_key, KeyPackageOf(party), extensions,
                party) :
         cipher_suite \in CipherSuites \cup {65535},
         hpke_init_key \in {"alice", "bob"}, party \in {"alice", "carol"},
         extensions \in {"ext0", "ext1"}}

CipherSuiteProviders ==
    {CipherSuiteProvider(cipher_suite, instance) :
         cipher_suite \in CipherSuites, instance \in {1, 2}}

KeyPackageOperation(op, kp, provider, res) ==
    [op |-> op, kp |-> kp, provider |-> provider, res |-> res]

KeyPackageInit ==
    /\ \E kp \in KeyPackages :
           last = KeyPackageOperation("generate", kp, None, Ok(kp))
    /\ group = [p \in Parties |-> NotJoined]
    /\ joined = {}
    /\ relay = <<>>
    /\ delivered = 0
    /\ welcomes = {}
    /\ accepted = [p \in Parties |-> <<>>]

\* key_package.to_reference(&provider), of the key package at hand or of
\* another one.
Referenced(kp, provider) ==
    /\ last' = KeyPackageOperation("to_reference", kp, Some(provider),
                                   ToReference(kp, provider))
    /\ UNCHANGED <<group, joined, relay, delivered, welcomes, accepted>>

KeyPackageNext ==
    \E kp \in KeyPackages, provider \in CipherSuiteProviders : Referenced(kp, provider)

KeyPackageSpec == KeyPackageInit /\ [][KeyPackageNext]_vars

-----------------------------------------------------------------------------
(* Properties.                                                             *)

\* What party p did in the operation recorded in `op`.
Did(op, p, kind) == IsSome(op.by[p]) /\ Unwrap(op.by[p]).op = kind
ResultOf(op, p) == Unwrap(op.by[p]).res
Failed(op, p, kind) == Did(op, p, kind) /\ ~ResultOf(op, p).ok
FailedWith(op, p, kind, err) == Failed(op, p, kind) /\ ResultOf(op, p).err = err

\* C1: whenever process_incoming_message returns an error to a member, the
\* member's group state after the call is its group state before the call.
C1_ErrorLeavesStateUnchanged ==
    \A p \in Parties : Failed(last, p, "process") => group[p] = last.before.group[p]

\* A member that holds a pending commit and cached proposals has just
\* rejected a commit that carries no confirmation tag.
C1_Witness ==
    \E p \in Parties :
        /\ FailedWith(last, p, "process", "InvalidConfirmationTag")
        /\ Unwrap(last.msg).confirmation_tag = None
        /\ IsSome(group[p].pending_commit)

\* C2: a commit requested by a member that already holds a pending commit
\* returns ExistingPendingCommit, whatever the request is, and changes
\* nothing: the slot keeps the one commit it held, nothing is sent and no
\* welcome is made.
C2_ExistingPendingCommitFirst ==
    \A p \in Parties :
        Did(last, p, "commit") /\ IsSome(last.before.group[p].pending_commit)
            => /\ ResultOf(last, p) = Err("ExistingPendingCommit")
               /\ group[p] = last.before.group[p]
               /\ Len(group[p].pending_commit) = 1
               /\ relay = last.before.relay
               /\ welcomes = last.before.welcomes

\* A member holding a pending commit asked for a commit that removes its own
\* leaf, which the proposal rules refuse: the answer is ExistingPendingCommit.
C2_Witness ==
    \E p \in Parties :
        /\ FailedWith(last, p, "commit", "ExistingPendingCommit")
        /\ Unwrap(last.input)[1] = <<RemoveProposal(group[p].self_index)>>
        /\ IsSome(group[p].pending_commit)

\* C3: a commit that a member builds successfully fills the member's
\* pending-commit slot with the commit it sends and changes nothing else of
\* the group: context, tree, interim transcript hash, proposal cache and key
\* schedule stay as they were.
C3_CommitOnlyFillsPendingSlot ==
    \A p \in Parties :
        Did(last, p, "commit") /\ ResultOf(last, p).ok
            => /\ IsSome(group[p].pending_commit)
               /\ Unwrap(group[p].pending_commit).content
                      = AuthContentOf(ResultOf(last, p).val.commit_message)
               /\ group[p] = [last.before.group[p] EXCEPT
                                   !.pending_commit = group[p].pending_commit]

\* A member with a cached proposal has built a commit with an update path.
C3_Witness ==
    \E p \in Parties :
        /\ Did(last, p, "commit") /\ ResultOf(last, p).ok
        /\ group[p].proposals # {}
        /\ IsSome(Unwrap(group[p].pending_commit).content.content.path)
        /\ group[p].context.epoch = Unwrap(group[p].pending_commit).content.epoch

C5_PeerCommitDiscardsPending ==
    \A p \in Parties :
        /\ Did(last, p, "process")
        /\ ResultOf(last, p).ok
        /\ ResultOf(last, p).val.kind = "Commit"
        /\ IsSome(last.before.group[p].pending_commit)
        => /\ group[p].pending_commit = None
           /\ ~ApplyPendingCommit(group[p]).res.ok
           /\ group[p].context.epoch = Unwrap(last.msg).epoch + 1
           /\ group[p].context.confirmed_transcript_hash
                  = ConfirmedTranscriptHash(last.before.group[p].interim_transcript_hash,
                                            AuthContentOf(Unwrap(last.msg)))

\* The epochs that the commits of a history are tagged with.
EpochsOf(history) == {history[i].epoch : i \in DOMAIN history}

\* C6: of the commits tagged with one epoch a member accepts at most one,
\* and once a member has a commit of epoch n installed, every commit of the
\* group tagged n that it is given, the installed one again or a concurrent
\* one, is rejected with InvalidEpoch(n) and changes nothing.
C6_OneCommitPerEpoch ==
    \A p \in Parties :
        /\ \A i, j \in DOMAIN accepted[p] :
               accepted[p][i].epoch = accepted[p][j].epoch => i = j
        /\ /\ Did(last, p, "process")
           /\ Unwrap(last.msg).content_type = "Commit"
           /\ Unwrap(last.msg).wire_format \in {"Plain", "Cipher"}
           /\ Unwrap(last.msg).version = last.before.group[p].context.protocol_version
           /\ Unwrap(last.msg).group_id = last.before.group[p].context.group_id
           /\ Unwrap(last.msg).epoch \in EpochsOf(last.before.accepted[p])
           => /\ ResultOf(last, p) = ErrArg("InvalidEpoch", Unwrap(last.msg).epoch)
              /\ group[p] = last.before.group[p]

\* Two members committed for the same epoch; the member that built the
\* second commit accepted the first one and now rejects its own.
C6_Witness ==
    \E p \in Parties :
        /\ FailedWith(last, p, "process", "InvalidEpoch")
        /\ Unwrap(last.msg).content_type = "Commit"
        /\ Unwrap(last.msg).sender = MemberSender(group[p].self_index)
        /\ \E i \in DOMAIN accepted[p] :
               /\ accepted[p][i].epoch = Unwrap(last.msg).epoch
               /\ accepted[p][i].id # CommitId(AuthContentOf(Unwrap(last.msg)))

\* C7: members that accepted the same commits in the same order, each
\* through process_incoming_message or through apply_pending_commit, hold
\* the same group context, the same public tree and the same epoch secret.
C7_Convergence ==
    \A p, q \in joined :
        accepted[p] = accepted[q]
            => /\ group[p].context = group[q].context
               /\ group[p].public_tree = group[q].public_tree
               /\ group[p].key_schedule.secret = group[q].key_schedule.secret

\* Two commits by different members, the second with an update path, were
\* delivered in turn: the committer applied it, the other member processed
\* it, and both accepted both commits.
C7_Witness ==
    \E p, q \in joined :
        /\ p # q
        /\ Did(last, p, "apply") /\ ResultOf(last, p).ok
        /\ Did(last, q, "process") /\ ResultOf(last, q).ok
        /\ IsSome(Unwrap(last.msg).content.path)
        /\ Len(accepted[p]) = 2
        /\ accepted[p] = accepted[q]
        /\ group[p].context.epoch = 3

\* C8: a party that joins from the welcome of a commit that adds it, with
\* the tree its committer exported after applying that commit, joins at the
\* committer's state after the apply: the epoch that follows the commit, the
\* same tree hash, confirmed transcript hash and epoch secret, with or
\* without an update path in the commit.
C8_JoinerMatchesCommitter ==
    \A p \in Parties :
        Did(last, p, "join")
            => /\ ResultOf(last, p).ok
               /\ group[p].context.epoch = Unwrap(last.input).commit.epoch + 1
               /\ group[p].context.epoch
                      = Unwrap(Unwrap(last.input).applied).g.context.epoch
               /\ group[p].context.tree_hash
                      = Unwrap(Unwrap(last.input).applied).g.context.tree_hash
               /\ TreeHash(group[p].public_tree) = group[p].context.tree_hash
               /\ group[p].context.confirmed_transcript_hash
                      = Unwrap(Unwrap(last.input).applied).g.context
                            .confirmed_transcript_hash
               /\ group[p].key_schedule.secret
                      = Unwrap(Unwrap(last.input).applied).g.key_schedule.secret

\* carol has joined from the welcome of a commit that carried an update path.
C8_Witness ==
    /\ Did(last, "carol", "join") /\ ResultOf(last, "carol").ok
    /\ "carol" \in joined
    /\ IsSome(group["carol"].public_tree.parents)
    /\ IsSome(Unwrap(Unwrap(last.input).applied).g.public_tree.parents)

\* Party p installs a commit in the operation: it accepts a received commit
\* or its own pending commit.
Installs(op, p) ==
    IsSome(op.by[p]) /\ Accepts(Unwrap(op.by[p]).op, Unwrap(op.by[p]).res)

\* C9: in every step the group id of a member stays as it is and its epoch
\* does not decrease; a step in which the member installs a commit, a
\* received one or its own pending one, raises its epoch by exactly 1, and
\* every other step (building a commit, a proposal, an application message,
\* any call that fails) leaves its epoch as it is.
C9_EpochAdvancesOnlyByInstalledCommits ==
    \A p \in last.before.joined :
        /\ group[p].context.group_id = last.before.group[p].context.group_id
        /\ group[p].context.epoch >= last.before.group[p].context.epoch
        /\ Installs(last, p)
               => group[p].context.epoch = last.before.group[p].context.epoch + 1
        /\ ~Installs(last, p)
               => group[p].context.epoch = last.before.group[p].context.epoch

\* A member has installed its second commit, a received one, and stands two
\* epochs after the start with the group id it started with.
C9_Witness ==
    \E p \in Founders :
        /\ Did(last, p, "process") /\ Installs(last, p)
        /\ Len(accepted[p]) = 2
        /\ group[p].context.epoch = TestGroups[p].context.epoch + 2
        /\ group[p].context.group_id = TestGroups[p].context.group_id

\* C10: a member that is given a proposal or a commit of its group, as
\* plaintext or as ciphertext, rejects it with InvalidEpoch carrying the
\* message's epoch when that epoch is not the member's current one, be it
\* older or newer; when the epochs are equal the message is not rejected
\* with InvalidEpoch.
C10_EpochCheck ==
    \A p \in Parties :
        /\ Did(last, p, "process")
        /\ Unwrap(last.msg).content_type \in {"Proposal", "Commit"}
        /\ Unwrap(last.msg).wire_format \in {"Plain", "Cipher"}
        /\ Unwrap(last.msg).version = last.before.group[p].context.protocol_version
        /\ Unwrap(last.msg).group_id = last.before.group[p].context.group_id
        => IF Unwrap(last.msg).epoch # last.before.group[p].context.epoch
           THEN ResultOf(last, p) = ErrArg("InvalidEpoch", Unwrap(last.msg).epoch)
           ELSE ResultOf(last, p).ok \/ ResultOf(last, p).err # "InvalidEpoch"

\* A member has rejected a ciphertext commit tagged with the epoch after its
\* own, reporting that epoch.
C10_Witness ==
    \E p \in Parties :
        /\ FailedWith(last, p, "process", "InvalidEpoch")
        /\ Unwrap(last.msg).content_type = "Commit"
        /\ Unwrap(last.msg).wire_format = "Cipher"
        /\ Unwrap(last.msg).epoch = group[p].context.epoch + 1
        /\ ResultOf(last, p).arg = Some(Unwrap(last.msg).epoch)

\* C11: an application message that arrives in plaintext wire format is never
\* delivered: process_incoming_message fails for it, with
\* UnencryptedApplicationMessage when its version and group id are the
\* group's, and so reports no ApplicationMessage event.
C11_PlaintextApplicationRejected ==
    \A p \in Parties :
       (/\ Did(last, p, "process")
        /\ Unwrap(last.msg).wire_format = "Plain"
        /\ Unwrap(last.msg).content_type = "Application")
       => /\ ~ResultOf(last, p).ok
          /\ group[p] = last.before.group[p]
          /\ (/\ Unwrap(last.msg).version = last.before.group[p].context.protocol_version
              /\ Unwrap(last.msg).group_id = last.before.group[p].context.group_id)
             => ResultOf(last, p).err = "UnencryptedApplicationMessage"

\* A member has just refused a plaintext application message of its group
\* and epoch.
C11_Witness ==
    \E p \in Parties :
        /\ FailedWith(last, p, "process", "UnencryptedApplicationMessage")
        /\ Unwrap(last.msg).wire_format = "Plain"
        /\ Unwrap(last.msg).content_type = "Application"
        /\ Unwrap(last.msg).epoch = group[p].context.epoch

\* A commit message that process_incoming_message hands to process_commit:
\* framed content that passes check_metadata and authenticates.
ReachesProcessCommit(g, message) ==
    /\ message.content_type = "Commit"
    /\ message.wire_format \in {"Plain", "Cipher"}
    /\ CheckMetadata(g.context, None, message).ok
    /\ VerifyOrDecrypt(g, message).ok

\* The provisional state that process_commit computes for the message.
ProvisionalOf(g, message) == CommitProvisionalState(g, AuthContentOf(message))

\* C12: a received commit whose proposals hold a ReInit, that meets the path
\* requirement and does not remove the receiver, only records the ReInit:
\* the call returns pending_reinit = true and active = false, and the group
\* changes in pending_reinit alone, whatever the commit's update path and
\* confirmation tag are.
C12_ReInitOnlyRecorded ==
    \A p \in Parties :
       (/\ Did(last, p, "process")
        /\ ReachesProcessCommit(last.before.group[p], Unwrap(last.msg))
        /\ ProvisionalOf(last.before.group[p], Unwrap(last.msg)).ok
        /\ IsSome(ProvisionalOf(last.before.group[p], Unwrap(last.msg)).val.reinit)
        /\ ~(/\ ProvisionalOf(last.before.group[p], Unwrap(last.msg)).val.path_update_required
             /\ Unwrap(last.msg).content.path = None)
        /\ CanContinueProcessing(last.before.group[p],
                                 ProvisionalOf(last.before.group[p], Unwrap(last.msg)).val))
       => /\ ResultOf(last, p).ok
          /\ ResultOf(last, p).val.event.pending_reinit
          /\ ~ResultOf(last, p).val.event.active
          /\ group[p] =
                 [last.before.group[p] EXCEPT !.pending_reinit =
                      ProvisionalOf(last.before.group[p], Unwrap(last.msg)).val.reinit]

\* A member has recorded the ReInit of a commit that came without its
\* confirmation tag.
C12_Witness ==
    \E p \in Parties :
        /\ Did(last, p, "process")
        /\ ResultOf(last, p).ok
        /\ Unwrap(last.msg).content_type = "Commit"
        /\ Unwrap(last.msg).confirmation_tag = None
        /\ ResultOf(last, p).val.event.pending_reinit
        /\ IsSome(group[p].pending_reinit)

\* C13: once a member's pending_reinit is set, no operation clears it or
\* changes the member's epoch, and every commit the member then builds or
\* receives that gets as far as the calculation of the provisional state
\* (no pending commit in the way and the proposals prepared, for a commit it
\* builds; the message checked, authenticated and its proposals resolved,
\* for a commit it receives) fails with GroupUsedAfterReInit.
C13_InertAfterReInit ==
    \A p \in Parties :
       IsSome(last.before.group[p].pending_reinit)
       => /\ group[p].pending_reinit = last.before.group[p].pending_reinit
          /\ group[p].context.epoch = last.before.group[p].context.epoch
          /\ (/\ Did(last, p, "commit")
              /\ last.before.group[p].pending_commit = None
              /\ PrepareCommit(last.before.group[p].proposals, MemberSender(last.before.group[p].self_index),
                               Unwrap(last.input)[1], last.before.group[p].public_tree).ok)
             => FailedWith(last, p, "commit", "GroupUsedAfterReInit")
          /\ (/\ Did(last, p, "process")
              /\ ReachesProcessCommit(last.before.group[p], Unwrap(last.msg))
              /\ ProposalEffects(last.before.group[p].proposals, Unwrap(last.msg).content,
                                 Unwrap(last.msg).sender, last.before.group[p].public_tree).ok)
             => FailedWith(last, p, "process", "GroupUsedAfterReInit")

\* A member whose pending_reinit is set, and that holds no pending commit,
\* has just been refused a commit of its own with GroupUsedAfterReInit.
C13_Witness ==
    \E p \in Parties :
        /\ FailedWith(last, p, "commit", "GroupUsedAfterReInit")
        /\ IsSome(group[p].pending_reinit)
        /\ group[p].pending_commit = None

\* The proposals of a received commit, resolved against the member's cache.
ProposalSetOf(g, message) ==
    ResolveProposals(message.content.proposals, g.proposals, message.sender).val

\* The proposal types that make an update path mandatory.
PathTypes == {"Update", "Remove", "GroupContextExtensions", "ExternalInit"}

\* A proposal set requires a path: it is empty, or holds a proposal of one of
\* the path types, or a Custom proposal that declares it.
RequiresPath(set) ==
    \/ Len(set) = 0
    \/ \E i \in 1..Len(set) :
           \/ set[i].proposal.type \in PathTypes
           \/ set[i].proposal.type = "Custom" /\ set[i].proposal.flag

BuiltMessage(op, p) == ResultOf(op, p).val.commit_message

\* C15: a commit that a member builds carries an update path exactly when
\* the client forces path updates or the committed proposal set is empty or
\* holds a proposal other than Add, Psk or ReInit; and no member refuses a
\* relayed commit with CommitMissingPath.
C15_PathIffForcedOrRequired ==
    \A p \in Parties :
       /\ (Did(last, p, "commit") /\ ResultOf(last, p).ok)
          => (IsSome(BuiltMessage(last, p).content.path)
              <=> \/ Unwrap(last.input)[2]
                  \/ Len(ProposalSetOf(last.before.group[p], BuiltMessage(last, p))) = 0
                  \/ \E i \in 1..Len(ProposalSetOf(last.before.group[p], BuiltMessage(last, p))) :
                         ProposalSetOf(last.before.group[p], BuiltMessage(last, p))[i].proposal.type
                             \notin {"Add", "Psk", "ReInit"})
       /\ last.op = "deliver"
          => ~FailedWith(last, p, "process", "CommitMissingPath")

\* The result of process_incoming_message for a message, in a group state.
ProcessResult(g, message) == ProcessIncomingMessage(g, None, message, TRUE).res

\* C16: a member installs a received commit only if the commit carries the
\* confirmation tag that the member derives from its new key schedule and
\* its new confirmed transcript hash; a commit that the member would install
\* is refused with InvalidConfirmationTag, the group unchanged, when it
\* arrives without its tag or with another tag.
C16_ConfirmationTagChecked ==
    \A p \in Parties :
       /\ (Did(last, p, "process") /\ Accepts("process", ResultOf(last, p)))
          => Unwrap(last.msg).confirmation_tag =
                 Some(ConfirmationTag(group[p].key_schedule,
                                      group[p].context.confirmed_transcript_hash))
       /\ (/\ last.op = "inject"
           /\ Did(last, p, "process")
           /\ Unwrap(last.msg).content_type = "Commit"
           /\ last.before.relay[last.before.delivered + 1].message.content_type = "Commit"
           /\ Unwrap(last.msg) # last.before.relay[last.before.delivered + 1].message
           /\ [Unwrap(last.msg) EXCEPT !.confirmation_tag =
                   last.before.relay[last.before.delivered + 1].message.confirmation_tag]
                  = last.before.relay[last.before.delivered + 1].message
           /\ Accepts("process", ProcessResult(last.before.group[p], last.before.relay[last.before.delivered + 1].message)))
          => /\ FailedWith(last, p, "process", "InvalidConfirmationTag")
             /\ group[p] = last.before.group[p]

\* A member has just refused, for its confirmation tag, a commit that
\* carries a tag other than its own.
C16_Witness ==
    \E p \in Parties :
        /\ last.op = "inject"
        /\ FailedWith(last, p, "process", "InvalidConfirmationTag")
        /\ Unwrap(last.msg).confirmation_tag = Some(EmptyHash)
        /\ Accepts("process", ProcessResult(group[p], relay[delivered + 1].message))

\* Proposal i of the bundle targets the leaf: it removes it, or it is the
\* Update of the member at it.
Targets(bundle, i, leaf) ==
    \/ bundle[i].proposal.type = "Remove" /\ bundle[i].proposal.leaf = leaf
    \/ /\ bundle[i].proposal.type = "Update"
       /\ bundle[i].sender.kind = "Member"
       /\ bundle[i].sender.leaf = leaf

TargetedTwice(bundle, leaf) ==
    \E i, j \in 1..Len(bundle) :
        i # j /\ Targets(bundle, i, leaf) /\ Targets(bundle, j, leaf)

\* C17: SingleProposalForLeaf::validate returns MoreThanOneProposalForLeaf
\* of a leaf that is targeted more than once, by Removes or by Updates of
\* its member, when there is such a leaf, and Ok when there is none.
C17_OneProposalPerLeaf ==
    (last.op = "validate" /\ last.filter = Rule("SingleProposalForLeaf"))
    => IF \E leaf \in Leaves : TargetedTwice(last.bundle, leaf)
       THEN /\ ~last.res.ok
            /\ last.res.err = "MoreThanOneProposalForLeaf"
            /\ TargetedTwice(last.bundle, Unwrap(last.res.arg))
       ELSE last.res = Ok(None)

\* validate has just refused a bundle in which a leaf is removed and its
\* member sends an Update, and no leaf is removed twice or updated twice.
C17_Witness ==
    /\ last.op = "validate"
    /\ last.filter = Rule("SingleProposalForLeaf")
    /\ ~last.res.ok
    /\ last.res.err = "MoreThanOneProposalForLeaf"
    /\ \E i, j \in 1..Len(last.bundle) :
           /\ last.bundle[i].proposal.type = "Remove"
           /\ last.bundle[j].proposal.type = "Update"
           /\ Targets(last.bundle, j, last.bundle[i].proposal.leaf)
    /\ \A i, j \in 1..Len(last.bundle) :
           (i # j /\ last.bundle[i].proposal.type = last.bundle[j].proposal.type)
           => ~\E leaf \in Leaves : Targets(last.bundle, i, leaf)
                                    /\ Targets(last.bundle, j, leaf)

\* C18: SingleProposalForLeaf::filter succeeds on every bundle, and what it
\* returns passes SingleProposalForLeaf::validate: no leaf is targeted twice
\* by the Removes and member-sent Updates that are left.
C18_FilterOutputIsValid ==
    (last.op = "filter" /\ last.filter = Rule("SingleProposalForLeaf"))
    => /\ last.res.ok
       /\ SingleProposalForLeafValidate(last.res.val) = Ok(None)
       /\ ~\E leaf \in Leaves : TargetedTwice(last.res.val, leaf)

\* filter has just dropped the Update of a member whose leaf the bundle also
\* removes.
C18_Witness ==
    /\ last.op = "filter"
    /\ last.filter = Rule("SingleProposalForLeaf")
    /\ last.res.ok
    /\ \E i, j \in 1..Len(last.bundle) :
           /\ last.bundle[i].proposal.type = "Remove"
           /\ last.bundle[j].proposal.type = "Update"
           /\ Targets(last.bundle, j, last.bundle[i].proposal.leaf)
    /\ Len(last.res.val) < Len(last.bundle)
    /\ ~\E i \in 1..Len(last.res.val) :
           /\ last.res.val[i].proposal.type = "Update"
           /\ last.res.val[i].sender.kind = "Member"

\* The rules whose filter, applied to its own output, returns it unchanged.
IdempotentRules ==
    {f \in Rules : \A bundle \in Bundles :
                       Filter(f, bundle).ok
                       => Filter(f, Filter(f, bundle).val) = Filter(f, bundle)}

\* The filter of the step is SingleProposalForLeaf, or a.and(b) of two
\* idempotent rules.
OfIdempotentRules(f) ==
    \/ f = Rule("SingleProposalForLeaf")
    \/ /\ f.rule = "And"
       /\ Unwrap(f.a) \in IdempotentRules
       /\ Unwrap(f.b) \in IdempotentRules

\* C19: filter(filter(B)) = filter(B) for every bundle B, for
\* SingleProposalForLeaf and for every And-composition of idempotent filters.
C19_FilterIdempotent ==
    [][(/\ last.op = "filter"
        /\ last'.op = "filter"
        /\ OfIdempotentRules(last.filter))
       => last'.res = last.res]_vars

\* C19, amended: filter(filter(B)) = filter(B) for every bundle B, for
\* SingleProposalForLeaf and for an And-composition a.and(b) of idempotent
\* filters whenever a leaves the output of the composition unchanged.
C19_FilterIdempotentWhenFirstAgrees ==
    [][(/\ last.op = "filter"
        /\ last'.op = "filter"
        /\ OfIdempotentRules(last.filter)
        /\ last.filter.rule = "And"
           => Filter(Unwrap(last.filter.a), last.res.val) = Ok(last.res.val))
       => last'.res = last.res]_vars

\* A combination of two different rules, SingleProposalForLeaf the first,
\* has dropped proposals from a bundle and has just returned its own output
\* unchanged.
C19_Witness ==
    /\ last.op = "filter"
    /\ last.filter.rule = "And"
    /\ Unwrap(last.filter.a) = Rule("SingleProposalForLeaf")
    /\ Unwrap(last.filter.b) = Rule("NoAdd")
    /\ last.res = Ok(last.bundle)
    /\ \E bundle \in Bundles :
           /\ Filter(last.filter, bundle) = last.res
           /\ Len(bundle) = Len(last.bundle) + 2

\* C20: a.and(b).validate returns the error of a when a rejects the bundle,
\* the error of b when a accepts it and b rejects it, and Ok only when both
\* accept it; a.and(b).filter returns the error of a when a's filter fails,
\* and otherwise what b's filter returns for the output of a.
C20_AndInOrder ==
    (last.op \in {"validate", "filter"} /\ last.filter.rule = "And")
    => /\ (last.op = "validate" /\ ~Validate(Unwrap(last.filter.a), last.bundle).ok)
          => last.res = Validate(Unwrap(last.filter.a), last.bundle)
       /\ (/\ last.op = "validate"
           /\ Validate(Unwrap(last.filter.a), last.bundle).ok
           /\ ~Validate(Unwrap(last.filter.b), last.bundle).ok)
          => last.res = Validate(Unwrap(last.filter.b), last.bundle)
       /\ (last.op = "validate" /\ last.res.ok)
          => /\ Validate(Unwrap(last.filter.a), last.bundle).ok
             /\ Validate(Unwrap(last.filter.b), last.bundle).ok
       /\ (last.op = "filter" /\ ~Filter(Unwrap(last.filter.a), last.bundle).ok)
          => last.res = Filter(Unwrap(last.filter.a), last.bundle)
       /\ (last.op = "filter" /\ Filter(Unwrap(last.filter.a), last.bundle).ok)
          => last.res = Filter(Unwrap(last.filter.b),
                               Filter(Unwrap(last.filter.a), last.bundle).val)

\* A combination has just refused, with the error of its first rule, a
\* bundle that its second rule refuses with another error.
C20_Witness ==
    /\ last.op = "validate"
    /\ last.filter.rule = "And"
    /\ ~last.res.ok
    /\ ~Validate(Unwrap(last.filter.a), last.bundle).ok
    /\ ~Validate(Unwrap(last.filter.b), last.bundle).ok
    /\ last.res.err = Validate(Unwrap(last.filter.a), last.bundle).err
    /\ last.res.err # Validate(Unwrap(last.filter.b), last.bundle).err

\* The proposal types of the protocol.
ProposalTypes ==
    {"Add", "Update", "Remove", "Psk", "ReInit", "ExternalInit",
     "GroupContextExtensions", "Custom"}

\* `sub` is `seq` with some of its elements left out.
RECURSIVE IsSubSeq(_, _)
IsSubSeq(sub, seq) ==
    IF sub = <<>> THEN TRUE
    ELSE IF seq = <<>> THEN FALSE
    ELSE IF Head(sub) = Head(seq) THEN IsSubSeq(Tail(sub), Tail(seq))
    ELSE IsSubSeq(sub, Tail(seq))

\* C21: what SingleProposalForLeaf::filter returns is its input with some
\* Remove and Update proposals left out: for every type, the proposals of
\* the type in the output are proposals of the input in their order there,
\* and for every type but Remove and Update they are all of them.
C21_FilterOutputIsSubBundle ==
    (last.op = "filter" /\ last.filter = Rule("SingleProposalForLeaf"))
    => /\ last.res.ok
       /\ \A type \in ProposalTypes :
              /\ IsSubSeq(ByType(last.res.val, type), ByType(last.bundle, type))
              /\ type \notin {"Remove", "Update"}
                 => ByType(last.res.val, type) = ByType(last.bundle, type)
       /\ Len(last.res.val) <= Len(last.bundle)

\* filter has just dropped the second Remove of a leaf from a bundle that
\* also holds an Add, which it kept.
C21_Witness ==
    /\ last.op = "filter"
    /\ last.filter = Rule("SingleProposalForLeaf")
    /\ last.res.ok
    /\ Len(ByType(last.bundle, "Remove")) = 2
    /\ Len(ByType(last.res.val, "Remove")) = 1
    /\ Len(ByType(last.bundle, "Add")) = 1
    /\ ByType(last.res.val, "Add") = ByType(last.bundle, "Add")

\* Party p has just installed the commit of the message: it applied it as
\* its pending commit or processed it as a received one.
Installed(op, p) ==
    /\ op.op = "deliver"
    /\ IsSome(op.by[p])
    /\ Unwrap(op.by[p]).op \in {"apply", "process"}
    /\ Unwrap(op.msg).content_type = "Commit"
    /\ Accepts(Unwrap(op.by[p]).op, ResultOf(op, p))

\* The GroupContextExtensions proposals of a proposal set.
ExtensionsProposed(set) == ByType(set, "GroupContextExtensions")

\* C22: the extensions of a member that installs a commit are, after it,
\* the extension list of the commit's GroupContextExtensions proposal, and
\* the member's extensions before it when the commit holds no such proposal.
C22_ExtensionsReplaced ==
    \A p \in Parties :
       Installed(last, p)
       => group[p].context.extensions =
              IF ExtensionsProposed(ProposalSetOf(last.before.group[p], Unwrap(last.msg))) # <<>>
              THEN ExtensionsProposed(ProposalSetOf(last.before.group[p],
                                                    Unwrap(last.msg)))[1].proposal.ext
              ELSE last.before.group[p].context.extensions

\* Both founders have installed a commit that proposes the extension list
\* ext1 and hold it, and a member has then installed a commit without
\* proposals.
C22_Witness ==
    /\ \A p \in Founders : group[p].context.extensions = "ext1"
    /\ \E p \in Founders :
           /\ Installed(last, p)
           /\ Unwrap(last.msg).content.proposals = <<>>

\* The Add proposals of the set that a built commit commits, in order.
AddsOf(g, message) == ByType(ProposalSetOf(g, message), "Add")

\* C23: a commit output holds a welcome message exactly when the commit adds
\* at least one member; the welcome then has one group-secrets entry per
\* added leaf, in the order of the Adds, and carries the protocol version and
\* the cipher suite of the group.
C23_WelcomeIffAdds ==
    \A p \in Parties :
      Did(last, p, "commit") /\ ResultOf(last, p).ok =>
          LET out == ResultOf(last, p).val
              adds == AddsOf(last.before.group[p], out.commit_message)
          IN /\ IsSome(out.welcome_message) <=> adds # <<>>
             /\ IsSome(out.welcome_message) =>
                    LET welcome == Unwrap(out.welcome_message)
                    IN /\ Len(welcome.secrets) = Len(adds)
                       /\ \A i \in 1..Len(adds) :
                              welcome.secrets[i].new_member = adds[i].proposal.kp
                       /\ welcome.version = last.before.group[p].context.protocol_version
                       /\ welcome.cipher_suite = last.before.group[p].context.cipher_suite

\* A commit that adds two members was built and its welcome has two entries.
C23_Witness ==
    \E p \in Parties :
        /\ Did(last, p, "commit") /\ ResultOf(last, p).ok
        /\ IsSome(ResultOf(last, p).val.welcome_message)
        /\ Len(Unwrap(ResultOf(last, p).val.welcome_message).secrets) = 2

\* How often an item occurs in a sequence.
Occurrences(seq, x) == Cardinality({i \in 1..Len(seq) : seq[i] = x})

\* C24: a member whose proposal cache is empty builds a commit that holds
\* exactly the proposals given to the builder: every item of the commit is a
\* proposal by value, none is a reference, there are as many items as
\* proposals given, and each given proposal occurs as often as it was given.
\* A builder given no proposal yields a commit with an empty proposal list.
C24_BuilderProposalsByValue ==
    \A p \in Parties :
      /\ Did(last, p, "commit") /\ ResultOf(last, p).ok
      /\ last.before.group[p].proposals = {}
      => LET given == Unwrap(last.input).proposals
             committed == BuiltMessage(last, p).content.proposals
         IN /\ Len(committed) = Len(given)
            /\ \A i \in 1..Len(committed) :
                   /\ ~committed[i].is_ref
                   /\ committed[i].ref = None
                   /\ IsSome(committed[i].proposal)
            /\ \A i \in 1..Len(given) :
                   Occurrences(committed, ByValue(given[i])) = Occurrences(given, given[i])
            /\ given = <<>> => committed = <<>>

\* A commit of three proposals of three kinds was built on an empty cache.
C24_Witness ==
    \E p \in Parties :
        /\ Did(last, p, "commit") /\ ResultOf(last, p).ok
        /\ group[p].proposals = {}
        /\ Len(Unwrap(last.input).proposals) = 3
        /\ Len(BuiltMessage(last, p).content.proposals) = 3

\* C25: the authenticated data given to the commit builder is the
\* authenticated data of the commit message it produces, and a member that
\* processes a message reports the authenticated data of that message and
\* the sender of its content.
C25_AuthenticatedDataCarried ==
    \A p \in Parties :
      /\ Did(last, p, "commit") /\ ResultOf(last, p).ok =>
             BuiltMessage(last, p).authenticated_data =
                 Unwrap(last.input).authenticated_data
      /\ Did(last, p, "process") /\ ResultOf(last, p).ok =>
             /\ ResultOf(last, p).val.authenticated_data =
                    Unwrap(last.msg).authenticated_data
             /\ ResultOf(last, p).val.sender = Some(Unwrap(last.msg).sender)

\* A commit built with authenticated data was processed by another member,
\* who reports the data and the committer as the sender.
C25_Witness ==
    \E p, q \in Founders :
        /\ p # q
        /\ Did(last, p, "apply")
        /\ Did(last, q, "process") /\ ResultOf(last, q).ok
        /\ Unwrap(last.msg).content_type = "Commit"
        /\ ResultOf(last, q).val.authenticated_data = "aad1"
        /\ ResultOf(last, q).val.sender = Some(MemberSender(group[p].self_index))

\* Group::roster: the members of the group, one for each occupied leaf.
Roster(g) ==
    {MemberFromLeafNode(Unwrap(g.public_tree.leaves[l]), l) : l \in OccupiedLeaves(g.public_tree)}

\* The signing identity a roster shows at a leaf.
IdentityAt(g, leaf) == {member.cred : member \in {m \in Roster(g) : m.index = leaf}}

\* The relayed message that a delivery step hands out.
Relayed == last.before.relay[last.before.delivered + 1]

\* C26: a commit built with set_new_signing_identity is signed with the
\* identity the committer's leaf held, and the GroupInfo of its welcome with
\* the new one; once the committer has applied the commit and another
\* member has processed it, the rosters of both show the committer's leaf
\* with the new identity.
C26_NewSigningIdentity ==
    \A p \in Parties :
      /\ /\ Did(last, p, "commit") /\ ResultOf(last, p).ok
         /\ Unwrap(last.input).new_identity
         => /\ {BuiltMessage(last, p).signed_by} = IdentityAt(last.before.group[p], last.before.group[p].self_index)
            /\ IsSome(ResultOf(last, p).val.welcome_message) =>
                   Unwrap(ResultOf(last, p).val.welcome_message).group_info.signed_by
                       = NewIdentity(p)
      /\ \A q \in Parties \ {p} :
             /\ last.op = "deliver"
             /\ Relayed.from = p
             /\ IsSome(Relayed.input) /\ Unwrap(Relayed.input).new_identity
             /\ Did(last, p, "apply") /\ Accepts("apply", ResultOf(last, p))
             /\ Did(last, q, "process") /\ Accepts("process", ResultOf(last, q))
             => /\ IdentityAt(group[p], group[p].self_index) = {NewIdentity(p)}
                /\ IdentityAt(group[q], group[p].self_index) = {NewIdentity(p)}

\* The key size of each cipher, as the claims state it.
StatedKeySize(aead) ==
    CASE aead = "Aes128Gcm" -> 16
      [] aead = "Aes256Gcm" -> 32
      [] aead = "Chacha20Poly1305" -> 32

\* C27: seal refuses an empty plaintext with EmptyPlaintext, whatever the
\* key; it refuses every other plaintext under a key whose length is not the
\* key size of the cipher (16 bytes for AES-128-GCM, 32 bytes for
\* AES-256-GCM and ChaCha20-Poly1305), shorter or longer, with
\* InvalidKeyLen(actual, expected).
C27_SealRejects ==
    last.op = "seal" =>
        /\ last.data.len = 0 => last.res = Err("EmptyPlaintext")
        /\ last.data.len # 0 /\ last.key.len # StatedKeySize(last.aead) =>
               last.res = ErrArg("InvalidKeyLen",
                                 <<last.key.len, StatedKeySize(last.aead)>>)
        /\ last.data.len # 0 /\ last.key.len = StatedKeySize(last.aead) =>
               last.res.err \notin {"EmptyPlaintext", "InvalidKeyLen"}

\* A plaintext was refused under a ChaCha20-Poly1305 key one byte too long.
C27_Witness ==
    /\ last.op = "seal"
    /\ last.aead = "Chacha20Poly1305"
    /\ last.data.len > 0
    /\ last.key.len = 33
    /\ last.res = ErrArg("InvalidKeyLen", <<33, 32>>)

\* C28: open refuses with InvalidCipherLen(len) every ciphertext of at most
\* the 16 bytes of the tag, whatever the key; only a longer ciphertext gets
\* its key length checked and is decrypted.
C28_OpenRejectsShort ==
    last.op = "open" =>
        /\ last.data.len <= 16 => last.res = ErrArg("InvalidCipherLen", last.data.len)
        /\ last.data.len > 16 =>
               /\ last.res.err # "InvalidCipherLen"
               /\ last.key.len # StatedKeySize(last.aead) =>
                      last.res = ErrArg("InvalidKeyLen",
                                        <<last.key.len, StatedKeySize(last.aead)>>)

\* A ciphertext of exactly the tag's length was refused under a key of the
\* wrong length.
C28_Witness ==
    /\ last.op = "open"
    /\ last.data.len = 16
    /\ last.key.len # StatedKeySize(last.aead)
    /\ last.res = ErrArg("InvalidCipherLen", 16)

\* C29: to_reference fails with InvalidCipherSuite(suite of the provider)
\* whenever the provider's cipher suite is not the one of the key package;
\* otherwise it returns a reference, and two calls on key packages with the
\* same serialization return the same reference.
C29_KeyPackageReference ==
    [][last'.op = "to_reference" =>
           LET provider == Unwrap(last'.provider)
           IN /\ provider.cipher_suite # last'.kp.cipher_suite =>
                     last'.res = ErrArg("InvalidCipherSuite", provider.cipher_suite)
              /\ provider.cipher_suite = last'.kp.cipher_suite => last'.res.ok
              /\ /\ last.op = "to_reference"
                 /\ last.res.ok /\ last'.res.ok
                 /\ TlsSerializeKeyPackage(last.kp) = TlsSerializeKeyPackage(last'.kp)
                 => last'.res.val = last.res.val]_vars

\* A key package of one suite was referenced with the provider of another.
C29_Witness ==
    /\ last.op = "to_reference"
    /\ last.kp.cipher_suite = 2
    /\ last.res = ErrArg("InvalidCipherSuite", 1)

\* The proposals handed to commit_internal hold an ExternalInit.
GivenExternalInit(given) == \E i \in 1..Len(given) : given[i].type = "ExternalInit"

\* The commit message holds an ExternalInit by value.
CommitsExternalInit(message) ==
    \E i \in 1..Len(message.content.proposals) :
        /\ IsSome(message.content.proposals[i].proposal)
        /\ Unwrap(message.content.proposals[i].proposal).type = "ExternalInit"

\* The errors of the proposal rules that come before the rule on the
\* ExternalInit of an external commit.
EarlierRuleErrors ==
    {"MoreThanOneProposalForLeaf", "MoreThanOneGroupContextExtensionsProposal",
     "InvalidCommitSelfUpdate"}

CacheProposalOf(op) ==
    IF op.op = "receive" THEN Unwrap(op.input).cache_proposal ELSE TRUE

\* An authentic Proposal message for the epoch of group g.
ProposalForCurrentEpoch(g, message) ==
    /\ message.content_type = "Proposal"
    /\ message.wire_format \in {"Plain", "Cipher"}
    /\ message.version = g.context.protocol_version
    /\ message.group_id = g.context.group_id
    /\ message.epoch = g.context.epoch
    /\ message.auth_ok
    /\ SignedBySender(g, message)

\* C31: a member that processes a Proposal message for its current epoch
\* gets a Proposal event with the proposal and its ProposalRef; with
\* cache_proposal the cache gains exactly the entry of that reference,
\* proposal and sender, without it the cache stays as it was; either way the
\* context with its epoch and confirmed transcript hash, the tree, the
\* interim transcript hash, the pending commit and pending_reinit stay.
C31_ProposalProcessed ==
    \A p \in Parties :
        /\ Did(last, p, "process")
        /\ ProposalForCurrentEpoch(last.before.group[p], Unwrap(last.msg))
        => LET auth_content == AuthContentOf(Unwrap(last.msg))
               entry == CacheEntry(ProposalRefOf(auth_content), auth_content.content,
                                   auth_content.sender)
           IN /\ ResultOf(last, p).ok
              /\ ResultOf(last, p).val.kind = "Proposal"
              /\ ResultOf(last, p).val.event
                     = <<auth_content.content, ProposalRefOf(auth_content)>>
              /\ group[p].proposals = IF CacheProposalOf(last)
                                       THEN last.before.group[p].proposals \cup {entry}
                                       ELSE last.before.group[p].proposals
              /\ \A e \in group[p].proposals : e.ref = entry.ref => e = entry
              /\ group[p].context = last.before.group[p].context
              /\ group[p].public_tree = last.before.group[p].public_tree
              /\ group[p].interim_transcript_hash = last.before.group[p].interim_transcript_hash
              /\ group[p].pending_commit = last.before.group[p].pending_commit
              /\ group[p].pending_reinit = last.before.group[p].pending_reinit

\* A member holding a pending commit processed another member's proposal
\* without caching it: the event names the proposal, the cache is empty.
C31_Witness ==
    \E p \in Parties :
        /\ last.op = "receive"
        /\ Did(last, p, "process")
        /\ ~Unwrap(last.input).cache_proposal
        /\ ResultOf(last, p).ok
        /\ ResultOf(last, p).val.kind = "Proposal"
        /\ ResultOf(last, p).val.event[1] = Unwrap(last.msg).content
        /\ group[p].proposals = {}
        /\ IsSome(group[p].pending_commit)

\* The group object an external commit was called on: the public state that
\* the exporting member gave out.
CalledOn(op) ==
    ExternalGroup(op.before.group[CHOOSE q \in Parties : Did(op, q, "export")])

\* C32: a commit request or an external commit that returns an error, at
\* whatever step, leaves the group object it was called on as it was: no
\* pending commit is stored, and the private tree with its self_index is
\* the one before the call.
C32_FailedCommitChangesNothing ==
    \A p \in Parties :
        /\ Failed(last, p, "commit") => group[p] = last.before.group[p]
        /\ Failed(last, p, "external_commit")
               => /\ group[p].pending_commit = None
                  /\ group[p].self_index = CalledOn(last).self_index
                  /\ group[p] = CalledOn(last)

\* The received commit gets as far as the test of can_continue_processing
\* in group g: its proposals give a provisional state, its sender is a
\* leaf of it, and it has a path if its proposals require one.
MeetsPathRequirement(g, message) ==
    /\ ReachesProcessCommit(g, message)
    /\ ProvisionalOf(g, message).ok
    /\ CommitSender(message.sender, ProvisionalOf(g, message).val).ok
    /\ ProvisionalOf(g, message).val.path_update_required
           => IsSome(message.content.path)

\* C33: a received commit that meets the path requirement and whose
\* provisional state the receiver cannot continue with (the commit removes
\* the receiver) is answered with Ok and active = false, and the receiver's
\* group stays exactly as it was, epoch and pending_reinit included,
\* whatever the commit's update path and confirmation tag are.
C33_RemovedReceiverStops ==
    \A p \in Parties :
       (/\ Did(last, p, "process")
        /\ MeetsPathRequirement(last.before.group[p], Unwrap(last.msg))
        /\ ~CanContinueProcessing(last.before.group[p],
                                  ProvisionalOf(last.before.group[p], Unwrap(last.msg)).val))
       => /\ ResultOf(last, p).ok
          /\ ResultOf(last, p).val.kind = "Commit"
          /\ ~ResultOf(last, p).val.event.active
          /\ group[p] = last.before.group[p]
          /\ group[p].context.epoch = last.before.group[p].context.epoch
          /\ group[p].pending_reinit = last.before.group[p].pending_reinit

\* A member was given the commit that removes it with a confirmation tag
\* that is not the commit's: the answer is Ok, not active, and the member
\* has no pending_reinit.
C33_Witness ==
    \E p \in Parties :
        /\ last.op = "inject"
        /\ Did(last, p, "process")
        /\ Unwrap(last.msg).content_type = "Commit"
        /\ Unwrap(last.msg).confirmation_tag = Some(EmptyHash)
        /\ \E i \in 1..Len(Unwrap(last.msg).content.proposals) :
               Unwrap(last.msg).content.proposals[i]
                   = ByValue(RemoveProposal(group[p].self_index))
        /\ ResultOf(last, p).ok
        /\ ~ResultOf(last, p).val.event.active
        /\ group[p].pending_reinit = None

\* C34: the two modes of SingleProposalForLeaf agree on every bundle:
\* validate returns Ok exactly when filter returns the bundle as it is, and
\* filter leaves out a proposal exactly when validate reports
\* MoreThanOneProposalForLeaf.
C34_ValidateAgreesWithFilter ==
    [][(/\ last.filter = Rule("SingleProposalForLeaf")
        /\ last.op = "validate"
        /\ last'.op = "filter")
       => /\ last'.bundle = last.bundle
          /\ last'.res.ok
          /\ last.res.ok <=> last'.res.val = last.bundle
          /\ Len(last'.res.val) < Len(last.bundle)
                 <=> (~last.res.ok /\ last.res.err = "MoreThanOneProposalForLeaf")
          /\ Len(last'.res.val) <= Len(last.bundle)]_vars

\* validate refused a bundle of a Remove and the Update of the member at its
\* leaf, and filter then returned the bundle without the Update.
C34_Witness ==
    /\ last.op = "filter"
    /\ last.filter = Rule("SingleProposalForLeaf")
    /\ SingleProposalForLeafValidate(last.bundle).err = "MoreThanOneProposalForLeaf"
    /\ Len(last.bundle) = 2
    /\ last.bundle[1].proposal.type = "Update"
    /\ last.bundle[2].proposal.type = "Remove"
    /\ last.res.val = <<last.bundle[2]>>

\* The proposals at the places `kept` of a bundle, in their order.
RECURSIVE Picked(_, _, _)
Picked(bundle, kept, i) ==
    IF i > Len(bundle) THEN <<>>
    ELSE (IF i \in kept THEN <<bundle[i]>> ELSE <<>>) \o Picked(bundle, kept, i + 1)

\* The places of a bundle that SingleProposalForLeaf is to keep: a Remove
\* that is the first of its leaf; an Update of a member whose leaf no Remove
\* of the bundle targets and no earlier Update of a member has; and every
\* other proposal, the Updates of senders that are no members among them.
KeptPlaces(bundle) ==
    {i \in 1..Len(bundle) :
        CASE bundle[i].proposal.type = "Remove" ->
                 ~\E j \in 1..(i - 1) :
                      /\ bundle[j].proposal.type = "Remove"
                      /\ bundle[j].proposal.leaf = bundle[i].proposal.leaf
          [] bundle[i].proposal.type = "Update" /\ bundle[i].sender.kind = "Member" ->
                 /\ ~\E j \in 1..Len(bundle) :
                        /\ bundle[j].proposal.type = "Remove"
                        /\ bundle[j].proposal.leaf = bundle[i].sender.leaf
                 /\ ~\E j \in 1..(i - 1) :
                        /\ bundle[j].proposal.type = "Update"
                        /\ bundle[j].sender = bundle[i].sender
          [] OTHER -> TRUE}

\* C35: SingleProposalForLeaf::filter keeps the first Remove of each leaf and
\* drops the later ones; it drops the Update of a member when a Remove of
\* the bundle targets the member's leaf, wherever the Remove stands, or when
\* an earlier Update is of the same member; it drops no Update of a sender
\* that is not a member, and nothing else.
C35_RemoveWinsOverUpdate ==
    (last.op = "filter" /\ last.filter = Rule("SingleProposalForLeaf"))
    => /\ last.res = Ok(Picked(last.bundle, KeptPlaces(last.bundle), 1))
       /\ \A i \in 1..Len(last.bundle) :
              (last.bundle[i].proposal.type = "Update"
               /\ last.bundle[i].sender.kind # "Member")
              => \E k \in 1..Len(last.res.val) : last.res.val[k] = last.bundle[i]

\* filter was given the Update of the member at leaf 0, then the Update of a
\* sender that is no member, then the Remove of leaf 0: it kept the Remove
\* and the second Update.
C35_Witness ==
    /\ last.op = "filter"
    /\ last.filter = Rule("SingleProposalForLeaf")
    /\ Len(last.bundle) = 3
    /\ last.bundle[1] = BundleItem(UpdateProposal(1), MemberSender(0), None)
    /\ last.bundle[2] = BundleItem(UpdateProposal(1), NewMemberCommitSender, None)
    /\ last.bundle[3].proposal = RemoveProposal(0)
    /\ last.res = Ok(<<last.bundle[2], last.bundle[3]>>)

\* min_epoch_available of the member that processed the message of `op`:
\* what its epoch store held in a reception of its own, no minimum in
\* all_process_message.
MinEpochOf(op, g) ==
    IF op.op = "receive" THEN MinEpochAvailable(g, Unwrap(op.input).epochs_held)
    ELSE None

\* The epoch of the message is one that group g refuses: not the current
\* one for a proposal or commit, below min_epoch_available for application
\* data.
EpochRefused(g, min_epoch_available, message) ==
    IF message.content_type = "Application"
    THEN IsSome(min_epoch_available) /\ message.epoch < Unwrap(min_epoch_available)
    ELSE message.epoch # g.context.epoch

\* C36: check_metadata reports the first failing check in the order version,
\* group id, epoch, unencrypted application data: a message of another
\* version gets InvalidProtocolVersion whatever else is wrong with it; a
\* Plain or Cipher message of the group's version and another group gets
\* InvalidGroupId; one of the group with a refused epoch gets InvalidEpoch,
\* plaintext application data too; and plaintext application data with
\* nothing else wrong gets UnencryptedApplicationMessage.
C36_MetadataCheckOrder ==
    \A p \in Parties :
        Did(last, p, "process") =>
            LET m == Unwrap(last.msg)
                g == last.before.group[p]
                framed == m.wire_format \in {"Plain", "Cipher"}
                res == ResultOf(last, p)
            IN IF m.version # g.context.protocol_version
                   THEN res = ErrArg("InvalidProtocolVersion",
                                     <<g.context.protocol_version, m.version>>)
               ELSE IF framed /\ m.group_id # g.context.group_id
                   THEN res = ErrArg("InvalidGroupId", m.group_id)
               ELSE IF framed /\ EpochRefused(g, MinEpochOf(last, g), m)
                   THEN res = ErrArg("InvalidEpoch", m.epoch)
               ELSE IF m.wire_format = "Plain" /\ m.content_type = "Application"
                   THEN res = Err("UnencryptedApplicationMessage")
               ELSE ~res.ok => res.err \notin {"InvalidProtocolVersion",
                                               "InvalidGroupId", "InvalidEpoch",
                                               "UnencryptedApplicationMessage"}

\* A member whose store holds the current epoch only was given plaintext
\* application data of the epoch before: the answer is InvalidEpoch.
C36_Witness ==
    \E p \in Parties :
        /\ last.op = "receive"
        /\ Unwrap(last.msg).wire_format = "Plain"
        /\ Unwrap(last.msg).content_type = "Application"
        /\ Unwrap(last.msg).group_id = group[p].context.group_id
        /\ Unwrap(last.input).epochs_held = Some(0)
        /\ Unwrap(last.msg).epoch = group[p].context.epoch - 1
        /\ FailedWith(last, p, "process", "InvalidEpoch")

\* C37: application data of the group's version and id passes the epoch
\* check exactly when the member reports no min_epoch_available or the
\* message's epoch is not below it: it is answered with InvalidEpoch when
\* its epoch is below the minimum and never else, be its epoch a past one
\* that is still held or one above the current.
C37_ApplicationEpoch ==
    \A p \in Parties :
       (/\ Did(last, p, "process")
        /\ Unwrap(last.msg).content_type = "Application"
        /\ Unwrap(last.msg).wire_format \in {"Plain", "Cipher"}
        /\ Unwrap(last.msg).version = last.before.group[p].context.protocol_version
        /\ Unwrap(last.msg).group_id = last.before.group[p].context.group_id)
       => LET min == MinEpochOf(last, last.before.group[p])
              passes == min = None \/ Unwrap(last.msg).epoch >= Unwrap(min)
          IN /\ passes <=> ~FailedWith(last, p, "process", "InvalidEpoch")
             /\ ~passes => ResultOf(last, p)
                               = ErrArg("InvalidEpoch", Unwrap(last.msg).epoch)

\* A member whose store holds the current epoch only was given encrypted
\* application data of the epoch above the current one, and was not
\* answered with InvalidEpoch: check_metadata let it through.
C37_Witness ==
    \E p \in Parties :
        /\ last.op = "receive"
        /\ Did(last, p, "process")
        /\ Unwrap(last.msg).content_type = "Application"
        /\ Unwrap(last.msg).wire_format = "Cipher"
        /\ Unwrap(last.input).epochs_held = Some(0)
        /\ Unwrap(last.msg).epoch = group[p].context.epoch + 1
        /\ ~FailedWith(last, p, "process", "InvalidEpoch")
        /\ CheckMetadata(group[p].context, Some(group[p].context.epoch),
                         Unwrap(last.msg)).ok

\* C38: a Welcome, GroupInfo or KeyPackage message of the group's version is
\* answered with UnexpectedMessageType, naming Plain and Cipher as expected
\* and its own wire format, whatever its group id and epoch are; one of
\* another version is answered with InvalidProtocolVersion; the group stays
\* as it was.
C38_OnlyFramedContent ==
    \A p \in Parties :
       (/\ Did(last, p, "process")
        /\ Unwrap(last.msg).wire_format \in {"Welcome", "GroupInfo", "KeyPackage"})
       => /\ group[p] = last.before.group[p]
          /\ ResultOf(last, p) =
                 IF Unwrap(last.msg).version = last.before.group[p].context.protocol_version
                 THEN ErrArg("UnexpectedMessageType",
                             <<{"Plain", "Cipher"}, Unwrap(last.msg).wire_format>>)
                 ELSE ErrArg("InvalidProtocolVersion",
                             <<last.before.group[p].context.protocol_version,
                               Unwrap(last.msg).version>>)

\* A member was given a KeyPackage message of its version that names
\* another group and another epoch: the answer is UnexpectedMessageType.
C38_Witness ==
    \E p \in Parties :
        /\ last.op = "receive"
        /\ Unwrap(last.msg).wire_format = "KeyPackage"
        /\ Unwrap(last.msg).group_id # group[p].context.group_id
        /\ Unwrap(last.msg).epoch # group[p].context.epoch
        /\ FailedWith(last, p, "process", "UnexpectedMessageType")
        /\ ResultOf(last, p).arg = Some(<<{"Plain", "Cipher"}, "KeyPackage">>)

\* The members a StateUpdate list names, as leaf index and identity.
Named(members) == {<<members[i].index, members[i].id>> : i \in 1..Len(members)}

\* The proposals of a type in the proposal set of a received commit.
Committed(g, message, type) == ByType(ProposalSetOf(g, message), type)

\* The leaf of the committer in the receiver's tree after the commit's
\* proposals: the sender's leaf, or the leaf an external committer takes.
CommitterLeaf(g, message) ==
    IF message.sender.kind = "Member" THEN message.sender.leaf
    ELSE Unwrap(ProvisionalOf(g, message).val.external_init)[1]

\* C39: the StateUpdate a member gets for a received commit reports the
\* epoch after its own, pending_reinit exactly when the commit holds a
\* ReInit, as added the key packages of the Adds at the leaves they take, as
\* removed the members at the leaves of the Removes, as updated the senders
\* of the Updates; a commit with an update path reports in addition its
\* committer with the path's leaf, as added when the commit holds an
\* ExternalInit and as updated otherwise, and a commit without a path
\* reports its committer in none of the lists.
C39_StateUpdateOfReceivedCommit ==
    \A p \in Parties :
       (/\ Did(last, p, "process")
        /\ Unwrap(last.msg).content_type = "Commit"
        /\ ResultOf(last, p).ok)
       => LET m == Unwrap(last.msg)
              g == last.before.group[p]
              update == ResultOf(last, p).val.event
              provisional == ProvisionalOf(g, m).val
              adds == Committed(g, m, "Add")
              removes == Committed(g, m, "Remove")
              updates == Committed(g, m, "Update")
              external == Committed(g, m, "ExternalInit") # <<>>
              committer == <<CommitterLeaf(g, m), Unwrap(m.content.path).leaf_node.id>>
              by_adds == {<<provisional.added_leaves[i][2], adds[i].proposal.kp>> :
                              i \in 1..Len(adds)}
              by_removes == {<<removes[i].proposal.leaf,
                               Unwrap(g.public_tree.leaves[removes[i].proposal.leaf]).id>> :
                                 i \in 1..Len(removes)}
              by_updates == {<<updates[i].sender.leaf,
                               Unwrap(g.public_tree.leaves[updates[i].sender.leaf]).id>> :
                                 i \in 1..Len(updates)}
              by_path == IF IsSome(m.content.path) THEN {committer} ELSE {}
          IN /\ update.epoch = g.context.epoch + 1
             /\ update.pending_reinit = (Committed(g, m, "ReInit") # <<>>)
             /\ Len(provisional.added_leaves) = Len(adds)
             /\ Named(update.roster_update.added)
                    = by_adds \cup (IF external THEN by_path ELSE {})
             /\ Named(update.roster_update.removed) = by_removes
             /\ Named(update.roster_update.updated)
                    = by_updates \cup (IF external THEN {} ELSE by_path)
             /\ Len(update.roster_update.added)
                    = Len(adds) + (IF external /\ IsSome(m.content.path) THEN 1 ELSE 0)
             /\ Len(update.roster_update.removed) = Len(removes)
             /\ Len(update.roster_update.updated)
                    = Len(updates) + (IF ~external /\ IsSome(m.content.path) THEN 1 ELSE 0)
             /\ IsSome(m.content.path)
                    => \E i \in 1..Len(IF external THEN update.roster_update.added
                                       ELSE update.roster_update.updated) :
                           (IF external THEN update.roster_update.added
                            ELSE update.roster_update.updated)[i]
                               = MemberFromLeafNode(Unwrap(m.content.path).leaf_node,
                                                    CommitterLeaf(g, m))
             /\ m.content.path = None
                    => \A list \in {update.roster_update.added,
                                    update.roster_update.removed,
                                    update.roster_update.updated} :
                           \A i \in 1..Len(list) :
                               list[i].index # CommitterLeaf(g, m)

\* A member processed the external commit of a party outside the group: the
\* StateUpdate names the party as added at the leaf it took, and nobody as
\* updated.
C39_Witness ==
    \E p \in Parties :
        /\ Did(last, p, "process")
        /\ Unwrap(last.msg).content_type = "Commit"
        /\ Unwrap(last.msg).sender = NewMemberCommitSender
        /\ ResultOf(last, p).ok
        /\ ResultOf(last, p).val.event.active
        /\ Named(ResultOf(last, p).val.event.roster_update.added)
               = {<<2, Unwrap(Unwrap(last.msg).content.path).leaf_node.id>>}
        /\ ResultOf(last, p).val.event.roster_update.updated = <<>>
        /\ ResultOf(last, p).val.event.epoch = group[p].context.epoch

=============================================================================
